---- MODULE Spec2Model ----
(***************************************************************************)
(* State-machine model of the drag interaction engine of vue-draggable:   *)
(* the DraggableCore component (lib/type.ts, the last DraggableCore in    *)
(* that file), the Draggable component that hosts it (lib/Draggable.tsx)  *)
(* and the position helpers (lib/utils/positionFns.ts, utils/domFns).     *)
(*                                                                         *)
(* Every handler of the source is an operator over a working record w     *)
(* that holds the objects of the program:                                  *)
(*   w.state  the IState object of DraggableCore                           *)
(*   w.core   the `let` bindings of DraggableCore's setup closure          *)
(*   w.ui     the reactive state and the `let` bindings of Draggable       *)
(*   w.doc    the owning document, the node and the browser's queues       *)
(*   w.calls  the callbacks invoked by the handler that is running         *)
(*   w.user   the values the caller's callbacks will return                *)
(* An action runs one handler to completion on the current variables and  *)
(* stores the resulting record back.                                       *)
(*                                                                         *)
(* Numbers are integers; the JavaScript value NaN is the sentinel NaN and  *)
(* the arithmetic operators below propagate it as JavaScript does.         *)
(***************************************************************************)
EXTENDS Integers, Sequences, FiniteSets, TLC

VARIABLES state, core, ui, doc, props, calls, hist

vars == <<state, core, ui, doc, props, calls, hist>>

----------------------------------------------------------------------------
(* Bounds of the model *)

MaxCoord == 2
MaxCoordY == 1
MaxPress == 1
MaxId == 2
MaxSteps == 5

----------------------------------------------------------------------------
(* Values *)

NaN == 0 - 999
None == 0

isNum(v) == v # NaN
IsFinite(v) == v # NaN
Add(a, b) == IF a = NaN \/ b = NaN THEN NaN ELSE a + b
Sub(a, b) == IF a = NaN \/ b = NaN THEN NaN ELSE a - b
StrictEq(a, b) == a # NaN /\ b # NaN /\ a = b
Falsy(v) == v = 0 \/ v = NaN
OrZero(v) == IF Falsy(v) THEN 0 ELSE v
MathMax(a, b) == IF a = NaN \/ b = NaN THEN NaN ELSE IF a >= b THEN a ELSE b
MathMin(a, b) == IF a = NaN \/ b = NaN THEN NaN ELSE IF a <= b THEN a ELSE b
Abs(a) == IF a < 0 THEN 0 - a ELSE a

\* The quotient rounded down instead of to the nearest integer.
MathFloorDiv(n, d) == n \div d

\* v / scale; the scales and lengths of the model divide without remainder.
OverScale(v, scale) == IF v = NaN \/ scale = 0 THEN NaN ELSE v \div scale

\* Math.round(n / d) for integers n and d > 0: floor(n/d + 1/2).
MathRoundDiv(n, d) == (2 * n + d) \div (2 * d)

eventsFor ==
  [touch   |-> [move |-> "touchmove",   stop |-> "touchend",  cancel |-> "touchcancel"],
   mouse   |-> [move |-> "mousemove",   stop |-> "mouseup",   cancel |-> "none"],
   pointer |-> [move |-> "pointermove", stop |-> "pointerup", cancel |-> "pointercancel"]]

MoveEvents == {"mousemove", "touchmove", "pointermove"}

FamilyOf(name) ==
  IF name \in {"mousemove", "mouseup"} THEN "mouse"
  ELSE IF name \in {"touchmove", "touchend", "touchcancel"} THEN "touch"
  ELSE "pointer"

\* An input event.  fam is the event family; id is the pointerId of a pointer
\* event or the identifier of the touch a touch event carries; ptype is the
\* pointerType; x, y are clientX/clientY (of the touch for a touch event).
NoEvent == [fam |-> "none", id |-> None, ptype |-> "none", x |-> 0, y |-> 0]

\* The client coordinates at which the browser delivers events.
CoordX == props.pageX
CoordY == props.pageY
Ids == 1 .. MaxId

MouseEvents == [fam : {"mouse"}, id : {None}, ptype : {"none"}, x : CoordX, y : CoordY]
TouchEvents == [fam : {"touch"}, id : Ids, ptype : {"none"}, x : CoordX, y : CoordY]
\* A pointer keeps its pointerType: pointer 1 is the mouse, the others are
\* fingers.
PointerTypeOf(id) == IF id = 1 THEN "mouse" ELSE "touch"

PointerEvents ==
  { [fam |-> "pointer", id |-> i, ptype |-> PointerTypeOf(i), x |-> x, y |-> y] :
      i \in Ids, x \in CoordX, y \in CoordY }

\* A press lands on the element, which covers the points 0 .. MaxPress of
\* the x axis.
IsPress(e) == e.x <= MaxPress /\ e.y = 0

EventsOf(fam) ==
  IF fam = "mouse" THEN MouseEvents
  ELSE IF fam = "touch" THEN TouchEvents
  ELSE PointerEvents

isPointerEvent(e) == e.fam = "pointer"

\* What the caller's callbacks return during one handler: TRUE is "not false"
\* (void), FALSE is the veto.  stop may be called twice by one handler (stop2
\* is the second answer).  A handler calls drag only after start was accepted,
\* calls stop after drag only when drag was vetoed, and calls stop a second
\* time only when the first stop was vetoed: the answers that are never
\* asked for are fixed to TRUE.
AllTrue == [start |-> TRUE, drag |-> TRUE, stop |-> TRUE, stop2 |-> TRUE]

UserChoices ==
  { AllTrue,
    [AllTrue EXCEPT !.start = FALSE],
    [AllTrue EXCEPT !.drag = FALSE],
    [AllTrue EXCEPT !.stop = FALSE],
    [AllTrue EXCEPT !.stop = FALSE, !.stop2 = FALSE],
    [AllTrue EXCEPT !.drag = FALSE, !.stop = FALSE],
    [AllTrue EXCEPT !.drag = FALSE, !.stop = FALSE, !.stop2 = FALSE] }

NullPosition == [ok |-> FALSE, x |-> NaN, y |-> NaN]
Position(x, y) == [ok |-> TRUE, x |-> x, y |-> y]

----------------------------------------------------------------------------
(* Configuration: the props of the component and the browser it runs in.   *)
(* props never changes after Init.                                          *)
(*   host                 "core": the callbacks are the caller's own;       *)
(*                        "draggable": DraggableCore is rendered by         *)
(*                        Draggable, whose onDragStart/onDrag/onDragStop    *)
(*                        are the core's callbacks                          *)
(*   hasPointerEvent      window.PointerEvent is defined                    *)
(*   grid                 0 for no grid, g for grid [g, g]                  *)
(*   bounds               a numeric rect, or has = FALSE                    *)
(*   position             the controlled position, or has = FALSE           *)
(*   defaultPosition      the position the element starts at                *)
(*   pageX, pageY         the client coordinates events arrive at           *)
(*   viewSize             the width and height of the window and of the     *)
(*                        scrollable box around the element (an even number)*)
(*   scrollMax            how far the box and the window can scroll, per    *)
(*                        axis (scrollWidth - clientWidth)                  *)
(*   scrollStart          scrollLeft of the box when the page is loaded     *)
(*   span                 the size of a coordinate step of the page         *)
(*   boundsSelector       the bounds are a selector whose lookups go        *)
(*                        through the per-node cache (bounds.missing: the   *)
(*                        document has no matching element at first)        *)

NoBounds == [has |-> FALSE, missing |-> FALSE, left |-> 0, right |-> 0, top |-> 0, bottom |-> 0]
NoPosition == [has |-> FALSE, x |-> 0, y |-> 0]
NoScroll == [box |-> [x |-> 0, y |-> 0], window |-> [x |-> 0, y |-> 0]]

DefaultProps ==
  [host |-> "draggable",
   hasPointerEvent |-> TRUE,
   touchAction |-> "none",
   disabled |-> FALSE,
   useRafDrag |-> FALSE,
   grid |-> 0,
   dragStartThreshold |-> 0,
   dragStartDelay |-> 0,
   dragStartDelayTolerance |-> 0,
   enableUserSelectHack |-> TRUE,
   enableClickSuppression |-> FALSE,
   autoScroll |-> FALSE,
   autoScrollThreshold |-> 30,
   autoScrollMaxSpeed |-> 20,
   viewSize |-> 0,
   scrollMax |-> NoScroll,
   scrollStart |-> 0,
   axis |-> "both",
   directionLock |-> FALSE,
   directionLockThreshold |-> 0,
   bounds |-> NoBounds,
   position |-> NoPosition,
   defaultPosition |-> [x |-> 0, y |-> 0],
   scale |-> 1,
   boundsSelector |-> FALSE,
   pageX |-> 0 .. MaxCoord,
   pageY |-> 0 .. MaxCoordY,
   span |-> 1]

----------------------------------------------------------------------------
(* The working record *)

Cur(u) ==
  [state |-> state, core |-> core, ui |-> ui, doc |-> doc,
   calls |-> <<>>, user |-> u, ret |-> TRUE, thrown |-> FALSE]

\* One callback invocation, as the caller observes it.
Call(fn, layer, data, ret) ==
  [fn |-> fn, layer |-> layer, x |-> data.x, y |-> data.y,
   deltaX |-> data.deltaX, deltaY |-> data.deltaY,
   lastX |-> data.lastX, lastY |-> data.lastY, ret |-> ret]

Log(w, c) == [w EXCEPT !.calls = Append(w.calls, c)]

\* The next value the caller's stop callback returns (it may run twice).
NextStopChoice(w) ==
  IF \E i \in 1 .. Len(w.calls) : w.calls[i].fn = "stop" /\ w.calls[i].layer = "user"
  THEN w.user.stop2 ELSE w.user.stop

----------------------------------------------------------------------------
(* utils/domFns and utils/positionFns *)

\* TRUE when the accessor finds the node (there is one node per instance).
findDOMNode(w) == w.core.draggingNode \/ w.doc.nodeRef

\* TRUE when the event carries the touch with this identifier.
getTouch(e, identifier) == e.fam = "touch" /\ e.id = identifier

getTouchIdentifier(e) == IF e.fam = "touch" THEN e.id ELSE None

\* Draggable handing its own scale on to DraggableCore.
coreScaleForwarded == props.scale

\* The scale option DraggableCore sees: Draggable's render takes scale out
\* of the options it passes on, so the core of a Draggable has the default.
coreScale == IF props.host = "core" THEN props.scale ELSE 1

\* A touch event has no clientX/clientY of its own: read without a touch
\* object it yields NaN.  The offset parent is the box, whose rect is at
\* (0,0) while the window is not scrolled: doc.scroll and doc.scrollY are
\* what the box and the window have scrolled together.
offsetXYFromParent(w, e, touchObj) ==
  IF touchObj \/ e.fam \in {"mouse", "pointer"}
  THEN Position(OverScale(e.x + w.doc.scroll, coreScale),
                OverScale(e.y + w.doc.scrollY, coreScale))
  ELSE Position(NaN, NaN)

getControlPosition(w, e, touchIdentifier) ==
  LET touchObj == touchIdentifier # None /\ getTouch(e, touchIdentifier) IN
  IF touchIdentifier # None /\ ~touchObj THEN NullPosition
  ELSE IF ~findDOMNode(w) THEN NullPosition
  ELSE offsetXYFromParent(w, e, touchObj)

\* snapToGrid returning the number of grid steps instead of the distance.
snapToGridSteps(grid, pendingX, pendingY) ==
  << IF pendingX = NaN THEN NaN ELSE MathRoundDiv(pendingX, grid),
     IF pendingY = NaN THEN NaN ELSE MathRoundDiv(pendingY, grid) >>

snapToGrid(grid, pendingX, pendingY) ==
  << IF pendingX = NaN THEN NaN ELSE MathRoundDiv(pendingX, grid) * grid,
     IF pendingY = NaN THEN NaN ELSE MathRoundDiv(pendingY, grid) * grid >>

\* thrown is TRUE when the node is missing ('not mounted on DragStart').
createCoreData(w, lastX, lastY, x, y) ==
  IF ~findDOMNode(w)
  THEN [thrown |-> TRUE, x |-> x, y |-> y, deltaX |-> 0, deltaY |-> 0,
        lastX |-> x, lastY |-> y]
  ELSE IF ~isNum(lastX)
  THEN [thrown |-> FALSE, x |-> x, y |-> y, deltaX |-> 0, deltaY |-> 0,
        lastX |-> x, lastY |-> y]
  ELSE [thrown |-> FALSE, x |-> x, y |-> y,
        deltaX |-> Sub(x, lastX), deltaY |-> Sub(y, lastY),
        lastX |-> lastX, lastY |-> lastY]

canDragX(p) == p.axis = "both" \/ p.axis = "x"
\* canDragY testing the other axis.
canDragYAsX(p) == p.axis = "both" \/ p.axis = "x"

canDragY(p) == p.axis = "both" \/ p.axis = "y"

\* ownerDocument.querySelector(selector): an element matches from the
\* beginning or has been added since.
querySelector(w) == ~props.bounds.missing \/ w.doc.boundAdded

\* getCachedBoundElement asking the document again after a lookup that
\* found nothing.
getCachedBoundElementRequerying(w) ==
  IF ~props.boundsSelector THEN ~props.bounds.missing
  ELSE IF w.doc.boundCache = "found" THEN TRUE
  ELSE querySelector(w)

\* The element a bounds selector (or 'parent') resolves to, if any.  The
\* cache of the node holds nothing for the selector ("unset"), the element
\* ("found", and the document still contains it) or null.
getCachedBoundElement(w) ==
  IF ~props.boundsSelector THEN ~props.bounds.missing
  ELSE IF w.doc.boundCache = "null" THEN FALSE
  ELSE IF w.doc.boundCache = "found" THEN TRUE
  ELSE querySelector(w)

\* What a lookup leaves behind: the document is queried when the cache of
\* the node holds nothing for the selector, and the answer is remembered.
rememberBoundElement(w) ==
  IF props.boundsSelector /\ props.bounds.has /\ w.doc.nodeRef
     /\ w.doc.boundCache = "unset"
  THEN [w EXCEPT !.doc.queries = @ + 1,
                 !.doc.boundCache = IF querySelector(w) THEN "found" ELSE "null"]
  ELSE w

\* getBoundPosition throws: the node is there and the bounds resolve to no
\* element.
getBoundPositionThrows(w) ==
  props.bounds.has /\ w.doc.nodeRef /\ ~getCachedBoundElement(w)

getBoundPosition(w, x, y) ==
  LET b == props.bounds IN
  IF ~b.has THEN <<x, y>>
  ELSE IF ~w.doc.nodeRef THEN <<x, y>>
  ELSE << MathMin(MathMax(x, b.left), b.right),
          MathMin(MathMax(y, b.top), b.bottom) >>

removeUserSelectStyles(w) == [w EXCEPT !.doc.bodyClass = FALSE]

addUserSelectStyles(w) == [w EXCEPT !.doc.bodyClass = TRUE]

addEvent(w, name) ==
  IF name = "none" THEN w ELSE [w EXCEPT !.doc.listeners = @ \cup {name}]
removeEvent(w, name) == [w EXCEPT !.doc.listeners = @ \ {name}]

----------------------------------------------------------------------------
(* DraggableCore: timers, frames, capture *)

\* getDragStartDelay with the sign test reversed.
getDragStartDelayReversed == IF props.dragStartDelay < 0 THEN props.dragStartDelay ELSE 0

getDragStartDelay == IF props.dragStartDelay > 0 THEN props.dragStartDelay ELSE 0
getDragStartThreshold ==
  IF props.dragStartThreshold <= 0 THEN 0
  ELSE IF coreScale = 0 THEN props.dragStartThreshold
  ELSE OverScale(props.dragStartThreshold, coreScale)
getDragStartDelayTolerance ==
  IF props.dragStartDelayTolerance <= 0 THEN 0
  ELSE IF coreScale = 0 THEN props.dragStartDelayTolerance
  ELSE OverScale(props.dragStartDelayTolerance, coreScale)

\* meetsDragStartThreshold asking for a distance above the threshold.
meetsDragStartThresholdAbove(w, x, y) ==
  LET threshold == getDragStartThreshold IN
  IF threshold <= 0 THEN TRUE
  ELSE IF ~IsFinite(w.core.dragStartX) \/ ~IsFinite(w.core.dragStartY) THEN TRUE
  ELSE IF x = NaN \/ y = NaN THEN FALSE
  ELSE LET dx == x - w.core.dragStartX
           dy == y - w.core.dragStartY
       IN (dx * dx) + (dy * dy) > threshold * threshold

meetsDragStartThreshold(w, x, y) ==
  LET threshold == getDragStartThreshold IN
  IF threshold <= 0 THEN TRUE
  ELSE IF ~IsFinite(w.core.dragStartX) \/ ~IsFinite(w.core.dragStartY) THEN TRUE
  ELSE IF x = NaN \/ y = NaN THEN FALSE
  ELSE LET dx == x - w.core.dragStartX
           dy == y - w.core.dragStartY
       IN (dx * dx) + (dy * dy) >= threshold * threshold

\* exceedsDragStartDelayTolerance with every distance tolerated.
exceedsDragStartDelayToleranceNever(w, x, y) == FALSE

exceedsDragStartDelayTolerance(w, x, y) ==
  LET tolerance == getDragStartDelayTolerance IN
  IF tolerance <= 0 THEN FALSE
  ELSE IF ~IsFinite(w.core.dragStartX) \/ ~IsFinite(w.core.dragStartY) THEN FALSE
  ELSE IF x = NaN \/ y = NaN THEN FALSE
  ELSE LET dx == x - w.core.dragStartX
           dy == y - w.core.dragStartY
       IN (dx * dx) + (dy * dy) > tolerance * tolerance

clearDragStartDelayTimer(w) == [w EXCEPT !.core.dragStartDelayTimerId = FALSE]

clearClickSuppression(w) ==
  [w EXCEPT !.core.suppressClickTimerId = FALSE,
            !.core.suppressClickListener = FALSE]

\* The listener without its timeout.
installClickSuppressionUntimed(w) ==
  IF ~props.enableClickSuppression THEN w
  ELSE [clearClickSuppression(w) EXCEPT !.core.suppressClickListener = TRUE]

installClickSuppression(w) ==
  IF ~props.enableClickSuppression THEN w
  ELSE [clearClickSuppression(w) EXCEPT !.core.suppressClickListener = TRUE,
                                        !.core.suppressClickTimerId = TRUE]

\* doc.capture is the pointer the browser has captured to the node.
releasePointerCapture(w) ==
  IF ~w.core.pointerCaptureTarget THEN w
  ELSE IF w.state.pointerIdentifier = None
  THEN [w EXCEPT !.core.pointerCaptureTarget = FALSE]
  ELSE [w EXCEPT !.core.pointerCaptureTarget = FALSE,
                 !.doc.capture = IF @ = w.state.pointerIdentifier THEN None ELSE @]

trySetPointerCapture(w, pointerId) ==
  [w EXCEPT !.core.pointerCaptureTarget = TRUE, !.doc.capture = pointerId]

\* The window keeps the frame callbacks in the order they were requested
\* (doc.raf): "drag" is flushDragRaf, "scroll" is autoScrollTick.
requestAnimationFrame(w, cb) == [w EXCEPT !.doc.raf = Append(@, cb)]

cancelAnimationFrame(w, cb) ==
  [w EXCEPT !.doc.raf = SelectSeq(@, LAMBDA c : c # cb)]

cancelAutoScrollRaf(w) ==
  IF ~w.core.autoScrollRafId THEN w
  ELSE [cancelAnimationFrame(w, "scroll") EXCEPT !.core.autoScrollRafId = FALSE]

cancelDragRaf(w) ==
  IF ~w.core.dragRafId THEN w
  ELSE [cancelAnimationFrame(w, "drag") EXCEPT !.core.dragRafId = FALSE]

scheduleDragRaf(w) ==
  IF w.core.dragRafId THEN w
  ELSE [requestAnimationFrame(w, "drag") EXCEPT !.core.dragRafId = TRUE]

ensureAutoScrollRaf(w) ==
  IF ~props.autoScroll \/ ~w.state.dragging THEN w
  ELSE IF w.core.autoScrollRafId THEN w
  ELSE [requestAnimationFrame(w, "scroll") EXCEPT !.core.autoScrollRafId = TRUE]

\* touch-like listeners are the touch family, or the pointer family driven
\* by a pointer event of pointerType 'touch'.
isTouchLike(w, e) ==
  w.core.dragEventFor = "touch"
    \/ (w.core.dragEventFor = "pointer" /\ isPointerEvent(e) /\ e.ptype = "touch")

----------------------------------------------------------------------------
(* Draggable (lib/Draggable.tsx) *)

\* A reset that leaves the direction lock as it is.
keepDirectionLock(w) == w

resetDirectionLock(w) ==
  [w EXCEPT !.ui.directionLockAxis = "none",
            !.ui.directionLockFixedX = NaN,
            !.ui.directionLockFixedY = NaN,
            !.ui.directionLockTotalX = 0,
            !.ui.directionLockTotalY = 0]

getDirectionLockThreshold ==
  IF props.directionLockThreshold <= 0 THEN 0
  ELSE IF props.scale = 0 THEN props.directionLockThreshold
  ELSE OverScale(props.directionLockThreshold, props.scale)

\* coreData with its deltas divided by Draggable's scale.
rawDeltas(coreData) ==
  [coreData EXCEPT !.deltaX = OverScale(@, props.scale),
                   !.deltaY = OverScale(@, props.scale)]

\* rafId is cleared without cancelling the frame: a frame that was requested
\* stays in the browser's queue (ui.frames counts the queued frames).
flushToReactiveState(w) ==
  [w EXCEPT !.ui.rafId = FALSE,
            !.ui.x = w.ui.internalX,
            !.ui.y = w.ui.internalY,
            !.ui.slackX = w.ui.internalSlackX,
            !.ui.slackY = w.ui.internalSlackY]

cancelFlush(w) ==
  IF w.ui.rafId THEN [w EXCEPT !.ui.rafId = FALSE, !.ui.frames = @ - 1] ELSE w

onDragStart(w, data) ==
  LET coreData == rawDeltas(data)
      controlled == props.position.has
      w1 == [w EXCEPT !.ui.internalX = IF controlled THEN props.position.x ELSE w.ui.x,
                      !.ui.internalY = IF controlled THEN props.position.y ELSE w.ui.y,
                      !.ui.internalSlackX = w.ui.slackX,
                      !.ui.internalSlackY = w.ui.slackY]
      w2 == flushToReactiveState(resetDirectionLock(w1))
      uiStart == [x |-> Add(w2.ui.internalX, coreData.deltaX),
                  y |-> Add(w2.ui.internalY, coreData.deltaY),
                  deltaX |-> coreData.deltaX, deltaY |-> coreData.deltaY,
                  lastX |-> w2.ui.internalX, lastY |-> w2.ui.internalY]
      shouldStart == w.user.start
      w3 == Log(w2, Call("start", "user", uiStart, shouldStart))
  IN IF shouldStart = FALSE THEN [w3 EXCEPT !.ret = FALSE]
     ELSE [w3 EXCEPT !.ui.dragging = TRUE, !.ui.dragged = TRUE, !.ret = TRUE]

\* directionLockStep choosing the axis anew on every move that crosses the
\* threshold.
directionLockStepRechoosing(w, coreData) ==
  LET locking == props.directionLock /\ canDragX(props) /\ canDragY(props)
      totalX == IF locking THEN Add(w.ui.directionLockTotalX, coreData.deltaX)
                ELSE w.ui.directionLockTotalX
      totalY == IF locking THEN Add(w.ui.directionLockTotalY, coreData.deltaY)
                ELSE w.ui.directionLockTotalY
      threshold == getDirectionLockThreshold
      crosses == locking
                   /\ (threshold = 0
                         \/ (totalX # NaN /\ totalY # NaN
                               /\ totalX * totalX + totalY * totalY >= threshold * threshold))
  IN [locking |-> locking,
      lockAxis |-> IF crosses
                   THEN (IF totalX # NaN /\ totalY # NaN /\ Abs(totalX) >= Abs(totalY)
                         THEN "x" ELSE "y")
                   ELSE w.ui.directionLockAxis,
      fixedX |-> IF crosses THEN w.ui.internalX ELSE w.ui.directionLockFixedX,
      fixedY |-> IF crosses THEN w.ui.internalY ELSE w.ui.directionLockFixedY,
      totalX |-> totalX, totalY |-> totalY]

\* The direction lock of onDrag: the totals accumulate while no axis is
\* chosen, and crossing the threshold chooses the axis and pins the position.
directionLockStep(w, coreData) ==
  LET locking == props.directionLock /\ canDragX(props) /\ canDragY(props)
      accumulate == locking /\ w.ui.directionLockAxis = "none"
      totalX == IF accumulate THEN Add(w.ui.directionLockTotalX, coreData.deltaX)
                ELSE w.ui.directionLockTotalX
      totalY == IF accumulate THEN Add(w.ui.directionLockTotalY, coreData.deltaY)
                ELSE w.ui.directionLockTotalY
      threshold == getDirectionLockThreshold
      crosses == accumulate
                   /\ (threshold = 0
                         \/ (totalX # NaN /\ totalY # NaN
                               /\ totalX * totalX + totalY * totalY >= threshold * threshold))
  IN [locking |-> locking,
      lockAxis |-> IF crosses
                   THEN (IF totalX # NaN /\ totalY # NaN /\ Abs(totalX) >= Abs(totalY)
                         THEN "x" ELSE "y")
                   ELSE w.ui.directionLockAxis,
      fixedX |-> IF crosses THEN w.ui.internalX ELSE w.ui.directionLockFixedX,
      fixedY |-> IF crosses THEN w.ui.internalY ELSE w.ui.directionLockFixedY,
      totalX |-> totalX, totalY |-> totalY]

\* The position and deltas of onDrag after the lock and the axis tests,
\* before 'Keep within bounds'.
axisStep(w, coreData, lock) ==
  LET pinY == lock.locking /\ lock.lockAxis = "x" /\ IsFinite(lock.fixedY)
      pinX == lock.locking /\ ~pinY /\ lock.lockAxis = "y" /\ IsFinite(lock.fixedX)
      effectiveAxisX == canDragX(props) /\ lock.lockAxis # "y"
      effectiveAxisY == canDragY(props) /\ lock.lockAxis # "x"
  IN [effectiveAxisX |-> effectiveAxisX,
      effectiveAxisY |-> effectiveAxisY,
      x |-> IF ~effectiveAxisX THEN w.ui.internalX
            ELSE IF pinX THEN lock.fixedX ELSE Add(w.ui.internalX, coreData.deltaX),
      y |-> IF ~effectiveAxisY THEN w.ui.internalY
            ELSE IF pinY THEN lock.fixedY ELSE Add(w.ui.internalY, coreData.deltaY),
      deltaX |-> IF ~effectiveAxisX THEN 0
                 ELSE IF pinX THEN Sub(lock.fixedX, w.ui.internalX) ELSE coreData.deltaX,
      deltaY |-> IF ~effectiveAxisY THEN 0
                 ELSE IF pinY THEN Sub(lock.fixedY, w.ui.internalY) ELSE coreData.deltaY]

\* boundsStep with the accumulated slack left out of the clamped position.
boundsStepWithoutSlack(w, lock, m) ==
  LET bounded == props.bounds.has
      bound == getBoundPosition(w, m.x, m.y)
      newX == IF bounded THEN bound[1] ELSE m.x
      newY == IF bounded THEN bound[2] ELSE m.y
  IN [x |-> newX, y |-> newY,
      deltaX |-> IF bounded THEN Sub(newX, w.ui.internalX) ELSE m.deltaX,
      deltaY |-> IF bounded THEN Sub(newY, w.ui.internalY) ELSE m.deltaY,
      lastX |-> w.ui.internalX, lastY |-> w.ui.internalY,
      thrown |-> getBoundPositionThrows(w),
      slackX |-> IF ~m.effectiveAxisX \/ ~bounded THEN 0 ELSE Sub(m.x, newX),
      slackY |-> IF ~m.effectiveAxisY \/ ~bounded THEN 0 ELSE Sub(m.y, newY),
      lockAxis |-> lock.lockAxis, fixedX |-> lock.fixedX, fixedY |-> lock.fixedY,
      totalX |-> lock.totalX, totalY |-> lock.totalY]

\* 'Keep within bounds' and the data handed to dragFn.
boundsStep(w, lock, m) ==
  LET bounded == props.bounds.has
      slackX == IF m.effectiveAxisX THEN w.ui.internalSlackX ELSE 0
      slackY == IF m.effectiveAxisY THEN w.ui.internalSlackY ELSE 0
      bound == getBoundPosition(w, Add(m.x, slackX), Add(m.y, slackY))
      newX == IF bounded THEN bound[1] ELSE m.x
      newY == IF bounded THEN bound[2] ELSE m.y
  IN [x |-> newX, y |-> newY,
      deltaX |-> IF bounded THEN Sub(newX, w.ui.internalX) ELSE m.deltaX,
      deltaY |-> IF bounded THEN Sub(newY, w.ui.internalY) ELSE m.deltaY,
      lastX |-> w.ui.internalX, lastY |-> w.ui.internalY,
      thrown |-> getBoundPositionThrows(w),
      slackX |-> IF ~m.effectiveAxisX \/ ~bounded THEN 0
                 ELSE Add(slackX, Sub(m.x, newX)),
      slackY |-> IF ~m.effectiveAxisY \/ ~bounded THEN 0
                 ELSE Add(slackY, Sub(m.y, newY)),
      lockAxis |-> lock.lockAxis, fixedX |-> lock.fixedX, fixedY |-> lock.fixedY,
      totalX |-> lock.totalX, totalY |-> lock.totalY]

lockedPipeline(w, coreData, lock) == boundsStep(w, lock, axisStep(w, coreData, lock))

\* The movement-policy pipeline of onDrag, up to the data handed to dragFn:
\* the new position, the new slack, the reported deltas and the lock state.
onDragPipeline(w, coreData) == lockedPipeline(w, coreData, directionLockStep(w, coreData))

\* onDrag from 'Short-circuit if user's callback killed it' on.  The commit
\* ends with scheduleFlush (a frame is requested unless one is pending) or,
\* with useRafDrag, with the pending frame cancelled and the state flushed.
onDragReport(w, p) ==
  IF w.user.drag = FALSE
  THEN [Log([w EXCEPT !.ui.directionLockAxis = p.lockAxis,
                      !.ui.directionLockFixedX = p.fixedX,
                      !.ui.directionLockFixedY = p.fixedY,
                      !.ui.directionLockTotalX = p.totalX,
                      !.ui.directionLockTotalY = p.totalY],
            Call("move", "user", p, FALSE))
          EXCEPT !.ret = FALSE]
  ELSE [Log([w EXCEPT !.ui.directionLockAxis = p.lockAxis,
                      !.ui.directionLockFixedX = p.fixedX,
                      !.ui.directionLockFixedY = p.fixedY,
                      !.ui.directionLockTotalX = p.totalX,
                      !.ui.directionLockTotalY = p.totalY,
                      !.ui.internalX = p.x,
                      !.ui.internalY = p.y,
                      !.ui.internalSlackX = p.slackX,
                      !.ui.internalSlackY = p.slackY,
                      !.ui.x = IF props.useRafDrag THEN p.x ELSE @,
                      !.ui.y = IF props.useRafDrag THEN p.y ELSE @,
                      !.ui.slackX = IF props.useRafDrag THEN p.slackX ELSE @,
                      !.ui.slackY = IF props.useRafDrag THEN p.slackY ELSE @,
                      !.ui.rafId = ~props.useRafDrag,
                      !.ui.frames = IF props.useRafDrag
                                    THEN (IF w.ui.rafId THEN @ - 1 ELSE @)
                                    ELSE (IF w.ui.rafId THEN @ ELSE @ + 1)],
            Call("move", "user", p, TRUE))
          EXCEPT !.ret = TRUE]

\* getBoundPosition has thrown inside onDrag: the direction lock has been
\* updated, nothing else.
onDragThrown(w, p) ==
  [w EXCEPT !.ui.directionLockAxis = p.lockAxis,
            !.ui.directionLockFixedX = p.fixedX,
            !.ui.directionLockFixedY = p.fixedY,
            !.ui.directionLockTotalX = p.totalX,
            !.ui.directionLockTotalY = p.totalY,
            !.thrown = TRUE]

onDrag(w, coreData) ==
  IF ~w.ui.dragging THEN [w EXCEPT !.ret = FALSE]
  ELSE LET p == onDragPipeline(w, rawDeltas(coreData))
           w1 == rememberBoundElement(w)
       IN IF p.thrown THEN onDragThrown(w1, p) ELSE onDragReport(w1, p)

onDragStop(w, coreData) ==
  IF ~w.ui.dragging THEN [w EXCEPT !.ret = FALSE]
  ELSE
    LET effectiveAxisX == canDragX(props) /\ w.ui.directionLockAxis # "y"
        effectiveAxisY == canDragY(props) /\ w.ui.directionLockAxis # "x"
        deltaX == IF effectiveAxisX THEN OverScale(coreData.deltaX, props.scale) ELSE 0
        deltaY == IF effectiveAxisY THEN OverScale(coreData.deltaY, props.scale) ELSE 0
        uiStop == [x |-> Add(w.ui.internalX, deltaX),
                   y |-> Add(w.ui.internalY, deltaY),
                   deltaX |-> deltaX, deltaY |-> deltaY,
                   lastX |-> w.ui.internalX, lastY |-> w.ui.internalY]
        shouldContinue == NextStopChoice(w)
        w1 == Log(w, Call("stop", "user", uiStop, shouldContinue))
        w2 == resetDirectionLock(w1)
        controlled == props.position.has
        w3 == [w2 EXCEPT !.ui.dragging = FALSE,
                         !.ui.internalSlackX = 0,
                         !.ui.internalSlackY = 0,
                         !.ui.internalX = IF controlled THEN props.position.x ELSE @,
                         !.ui.internalY = IF controlled THEN props.position.y ELSE @]
    IN IF shouldContinue = FALSE THEN [w1 EXCEPT !.ret = FALSE]
       ELSE [flushToReactiveState(cancelFlush(w3)) EXCEPT !.ret = TRUE]

\* The position the render function of Draggable would hand to the
\* transform with the options p and the reactive state u as they are, were
\* it to ignore the position option.
transformOptsUncontrolled(p, u) == [x |-> u.x, y |-> u.y]

\* The position the render function of Draggable hands to the transform.
transformOpts(p, u) ==
  LET controlled == p.position.has
      draggable == ~controlled \/ u.dragging
      validPosition == IF controlled THEN p.position ELSE p.defaultPosition
  IN [x |-> IF canDragX(p) /\ draggable THEN u.x ELSE validPosition.x,
      y |-> IF canDragY(p) /\ draggable THEN u.y ELSE validPosition.y]

----------------------------------------------------------------------------
(* The callbacks of DraggableCore: props.startFn, props.dragFn, props.stopFn. *)
(* w.ret is what the callback returned (FALSE is the explicit false).         *)

startFn(w, coreData) ==
  IF props.host = "core"
  THEN [Log(w, Call("start", "core", coreData, w.user.start)) EXCEPT !.ret = w.user.start]
  ELSE LET w1 == onDragStart(w, coreData)
       IN Log(w1, Call("start", "core", coreData, w1.ret))

dragFn(w, coreData) ==
  IF props.host = "core"
  THEN [Log(w, Call("move", "core", coreData, w.user.drag)) EXCEPT !.ret = w.user.drag]
  ELSE LET w1 == onDrag(w, coreData)
       IN IF w1.thrown THEN w1 ELSE Log(w1, Call("move", "core", coreData, w1.ret))

stopFn(w, coreData) ==
  IF props.host = "core"
  THEN LET r == IF \E i \in 1 .. Len(w.calls) : w.calls[i].fn = "stop"
                THEN w.user.stop2 ELSE w.user.stop
       IN [Log(w, Call("stop", "core", coreData, r)) EXCEPT !.ret = r]
  ELSE LET w1 == onDragStop(w, coreData)
       IN Log(w1, Call("stop", "core", coreData, w1.ret))

----------------------------------------------------------------------------
(* DraggableCore: the gesture handlers *)

\* The scrollable ancestors found at drag start (nearest first, window last).
getAutoScrollContainersForNode == <<"box", "window">>

ResetGesture(w) ==
  [w EXCEPT !.state.dragging = FALSE,
            !.state.lastX = NaN,
            !.state.lastY = NaN,
            !.state.touchIdentifier = None,
            !.state.pointerIdentifier = None,
            !.core.draggingNode = FALSE,
            !.core.pendingDragEvent = NoEvent,
            !.core.lastProcessedX = NaN,
            !.core.lastProcessedY = NaN,
            !.core.pendingDragStart = FALSE,
            !.core.pendingDragStartMode = "none",
            !.core.dragStartX = NaN,
            !.core.dragStartY = NaN,
            !.core.pendingX = NaN,
            !.core.pendingY = NaN,
            !.core.dragStartDelayPassed = FALSE,
            !.core.dragStartDelayEvent = NoEvent,
            !.core.hasDragged = FALSE]

RemoveGestureListeners(w) ==
  LET names == eventsFor[w.core.dragEventFor] IN
  removeEvent(removeEvent(removeEvent(w, names.move), names.stop), names.cancel)

cancelPendingDragStart(w) ==
  LET thisNode == findDOMNode(w)
      w1 == cancelAutoScrollRaf(clearDragStartDelayTimer(cancelDragRaf(w)))
      w2 == ResetGesture(releasePointerCapture(
              [w1 EXCEPT !.state.touchIdentifier = None]))
      w3 == [w2 EXCEPT !.core.autoScrollContainers = <<>>,
                       !.core.autoScrollLastEvent = NoEvent]
  IN IF thisNode THEN RemoveGestureListeners(w3) ELSE w3

\* startDrag after startFn has answered (w1 is the record it left).
startDragAnswered(w1, e, x, y, resetLastCoords) ==
  IF w1.ret = FALSE \/ ~w1.state.mounted
  THEN [cancelPendingDragStart(w1) EXCEPT !.ret = FALSE]
  ELSE ensureAutoScrollRaf(
    [(IF findDOMNode(w1) /\ props.enableUserSelectHack
      THEN addUserSelectStyles(w1) ELSE w1) EXCEPT
       !.state.lastX = IF resetLastCoords THEN x ELSE @,
       !.state.lastY = IF resetLastCoords THEN y ELSE @,
       !.core.lastProcessedX = IF resetLastCoords THEN x ELSE @,
       !.core.lastProcessedY = IF resetLastCoords THEN y ELSE @,
       !.core.pendingDragStart = FALSE,
       !.core.pendingDragStartMode = "none",
       !.core.dragStartDelayPassed = FALSE,
       !.core.dragStartDelayEvent = NoEvent,
       !.state.dragging = TRUE,
       !.core.autoScrollLastEvent = e,
       !.core.autoScrollContainers =
          IF ~props.autoScroll THEN @
          ELSE IF findDOMNode(w1) THEN getAutoScrollContainersForNode ELSE <<>>,
       !.ret = TRUE])

startDrag(w, e, x, y, resetLastCoords) ==
  IF ~findDOMNode(w) THEN [w EXCEPT !.thrown = TRUE, !.ret = FALSE]
  ELSE startDragAnswered(startFn(w, createCoreData(w, NaN, NaN, x, y)),
                         e, x, y, resetLastCoords)

tryStartDrag(w, e, x, y) ==
  IF ~w.core.pendingDragStart THEN [w EXCEPT !.ret = w.state.dragging]
  ELSE IF w.core.pendingDragStartMode = "delay"
  THEN (IF ~w.core.dragStartDelayPassed THEN [w EXCEPT !.ret = FALSE]
        ELSE startDrag(w, e, x, y, TRUE))
  ELSE IF ~meetsDragStartThreshold(w, x, y) THEN [w EXCEPT !.ret = FALSE]
  ELSE startDrag(w, e, x, y, FALSE)

\* Delay mode records the latest position before anything else.
recordPendingPosition(w, x, y) ==
  IF w.core.pendingDragStartMode = "delay"
  THEN [w EXCEPT !.core.pendingX = x, !.core.pendingY = y]
  ELSE w

\* The qualification step handleDrag and flushDragRaf run while the gesture
\* is not dragging yet; w.ret tells whether the move goes on.
qualifyPendingDrag(w, e, x, y) ==
  IF w.state.dragging THEN [w EXCEPT !.ret = TRUE]
  ELSE IF w.core.pendingDragStartMode = "delay" /\ ~w.core.dragStartDelayPassed
  THEN (IF exceedsDragStartDelayTolerance(w, x, y)
        THEN [cancelPendingDragStart(recordPendingPosition(w, x, y)) EXCEPT !.ret = FALSE]
        ELSE [recordPendingPosition(w, x, y) EXCEPT !.ret = FALSE])
  ELSE tryStartDrag(recordPendingPosition(w, x, y), e, x, y)

\* 'Reset the el.' and 'Remove event handlers' of handleDragStop.
resetDragState(w, thisNode) ==
  IF thisNode
  THEN RemoveGestureListeners(clearDragStartDelayTimer(ResetGesture(
         releasePointerCapture([w EXCEPT !.state.touchIdentifier = None]))))
  ELSE clearDragStartDelayTimer(ResetGesture(
         releasePointerCapture([w EXCEPT !.state.touchIdentifier = None])))

\* handleDragStop after stopFn has answered (w3 is the record it left).
handleDragStopAnswered(w3, thisNode) ==
  IF w3.ret = FALSE \/ ~w3.state.mounted THEN [w3 EXCEPT !.ret = FALSE]
  ELSE resetDragState(
         IF thisNode /\ w3.state.dragging /\ w3.core.hasDragged
         THEN installClickSuppression(
                IF props.enableUserSelectHack THEN removeUserSelectStyles(w3) ELSE w3)
         ELSE IF thisNode /\ props.enableUserSelectHack THEN removeUserSelectStyles(w3)
         ELSE w3,
         thisNode)

\* handleDragStop from 'cancelAutoScrollRaf()' on.
handleDragStopReport(w2, e) ==
  IF ~w2.state.dragging THEN resetDragState(w2, findDOMNode(w2))
  ELSE
    LET position == getControlPosition(w2, e, w2.state.touchIdentifier)
        hasGrid == props.grid > 0
        snapped == snapToGrid(IF hasGrid THEN props.grid ELSE 1,
                              OrZero(Sub(position.x, w2.state.lastX)),
                              OrZero(Sub(position.y, w2.state.lastY)))
        x == IF hasGrid THEN Add(w2.state.lastX, snapped[1]) ELSE position.x
        y == IF hasGrid THEN Add(w2.state.lastY, snapped[2]) ELSE position.y
    IN IF ~position.ok THEN w2
       ELSE handleDragStopAnswered(
              stopFn(w2, createCoreData(w2, w2.state.lastX, w2.state.lastY, x, y)),
              findDOMNode(w2))

handleDragStopFlushed(w1, e) ==
  IF w1.thrown THEN w1
  ELSE handleDragStopReport(
         [cancelAutoScrollRaf(w1) EXCEPT
                    !.core.autoScrollContainers = <<>>,
                    !.core.autoScrollLastEvent = NoEvent],
         e)

\* handleDragStop as the move pipeline calls it after a veto.  Its
\* flushPendingDragRaf step does nothing there: without frame batching it is
\* skipped, and with it the caller is flushDragRaf, which has cleared
\* dragRafId.
handleDragStopNested(w, e) ==
  IF ~w.state.dragging /\ ~w.core.pendingDragStart THEN w
  ELSE IF w.state.pointerIdentifier # None /\ isPointerEvent(e)
            /\ e.id # w.state.pointerIdentifier
  THEN w
  ELSE handleDragStopFlushed(w, e)

\* The end of the move pipeline, after dragFn has answered (w2 is the record
\* it left): a veto ends the gesture, otherwise the position is committed.
commitDrag(w2, e, x, y) ==
  IF w2.thrown THEN w2
  ELSE IF w2.ret = FALSE \/ ~w2.state.mounted THEN handleDragStopNested(w2, e)
  ELSE ensureAutoScrollRaf([w2 EXCEPT !.state.lastX = x, !.state.lastY = y,
                                     !.core.hasDragged = TRUE])

reportDrag(w1, e, x, y) ==
  IF ~findDOMNode(w1) THEN [w1 EXCEPT !.thrown = TRUE]
  ELSE commitDrag(dragFn(w1, createCoreData(w1, w1.state.lastX, w1.state.lastY, x, y)),
                  e, x, y)

\* The move pipeline shared by handleDrag and flushDragRaf from 'Skip useless
\* drag' on; base is the position the move is measured and snapped against,
\* and raf tells whether lastProcessedX/Y are recorded.
processDrag(w, e, x0, y0, baseX, baseY, raf) ==
  IF StrictEq(x0, baseX) /\ StrictEq(y0, baseY) THEN w
  ELSE
    LET hasGrid == props.grid > 0
        snapped == snapToGrid(IF hasGrid THEN props.grid ELSE 1,
                              Sub(x0, baseX), Sub(y0, baseY))
        x == IF hasGrid THEN Add(baseX, snapped[1]) ELSE x0
        y == IF hasGrid THEN Add(baseY, snapped[2]) ELSE y0
    IN IF hasGrid /\ Falsy(snapped[1]) /\ Falsy(snapped[2]) THEN w
       ELSE reportDrag(IF raf
                       THEN [w EXCEPT !.core.lastProcessedX = x, !.core.lastProcessedY = y]
                       ELSE w,
                       e, x, y)

\* After qualification (w2 is the record it left).  handleDrag measures the
\* move against state.lastX/Y as they are now; flushDragRaf against the base
\* it read before qualifying.
continueDrag(w2, e, x, y, baseX, baseY, raf) ==
  IF w2.thrown \/ ~w2.ret THEN w2
  ELSE IF raf THEN processDrag(w2, e, x, y, baseX, baseY, TRUE)
  ELSE processDrag(w2, e, x, y, w2.state.lastX, w2.state.lastY, FALSE)

flushDragRafEvent(w1, lastEvent) ==
  LET position == getControlPosition(w1, lastEvent, w1.state.touchIdentifier)
      baseX == IF IsFinite(w1.core.lastProcessedX)
               THEN w1.core.lastProcessedX ELSE w1.state.lastX
      baseY == IF IsFinite(w1.core.lastProcessedY)
               THEN w1.core.lastProcessedY ELSE w1.state.lastY
  IN IF ~position.ok THEN w1
     ELSE continueDrag(qualifyPendingDrag(w1, lastEvent, position.x, position.y),
                       lastEvent, position.x, position.y, baseX, baseY, TRUE)

flushDragRafPending(w0) ==
  IF ~w0.state.dragging /\ ~w0.core.pendingDragStart THEN w0
  ELSE IF w0.core.pendingDragEvent = NoEvent THEN w0
  ELSE flushDragRafEvent([w0 EXCEPT !.core.autoScrollLastEvent = w0.core.pendingDragEvent],
                         w0.core.pendingDragEvent)

flushDragRaf(w) == flushDragRafPending([w EXCEPT !.core.dragRafId = FALSE])

\* flushPendingDragRaf dropping the buffered event.
flushPendingDragRafDropped(w) == cancelDragRaf(w)

flushPendingDragRaf(w) ==
  IF ~w.core.dragRafId THEN w ELSE flushDragRaf(cancelDragRaf(w))

handleDragStop(w, e) ==
  IF ~w.state.dragging /\ ~w.core.pendingDragStart THEN w
  ELSE IF w.state.pointerIdentifier # None /\ isPointerEvent(e)
            /\ e.id # w.state.pointerIdentifier
  THEN w
  ELSE handleDragStopFlushed(IF props.useRafDrag THEN flushPendingDragRaf(w) ELSE w, e)

\* The frame-batched branch of handleDrag: the event is buffered for the next
\* frame; qualified tells whether the qualification step ran (touch-like).
bufferDrag(w2, e, qualified) ==
  IF qualified /\ (w2.thrown \/ ~w2.ret) THEN w2
  ELSE ensureAutoScrollRaf(scheduleDragRaf([w2 EXCEPT !.core.pendingDragEvent = e]))

\* handleDrag after the pointer filter, from 'autoScrollLastEvent = e' on.
handleDragTracked(w1, e) ==
  LET position == getControlPosition(w1, e, w1.state.touchIdentifier) IN
  IF props.useRafDrag /\ ~isTouchLike(w1, e) THEN bufferDrag(w1, e, FALSE)
  ELSE IF ~position.ok THEN w1
  ELSE IF props.useRafDrag
  THEN bufferDrag(qualifyPendingDrag(w1, e, position.x, position.y), e, TRUE)
  ELSE continueDrag(qualifyPendingDrag(w1, e, position.x, position.y),
                    e, position.x, position.y, NaN, NaN, FALSE)

handleDrag(w, e) ==
  IF w.state.pointerIdentifier # None
       /\ (~isPointerEvent(e) \/ e.id # w.state.pointerIdentifier)
  THEN w
  ELSE handleDragTracked([w EXCEPT !.core.autoScrollLastEvent = e], e)

\* The end of handleDragStart: the document listeners and the capture.
attachDragListeners(w4, e) ==
  LET names == eventsFor[w4.core.dragEventFor] IN
  IF w4.core.dragEventFor = "pointer" /\ isPointerEvent(e)
  THEN trySetPointerCapture(
         addEvent(addEvent(addEvent(w4, names.move), names.stop), names.cancel), e.id)
  ELSE addEvent(addEvent(addEvent(w4, names.move), names.stop), names.cancel)

\* Immediate mode: a start that is refused returns before the listeners.
handleDragStartStarted(w4, e) ==
  IF w4.thrown \/ w4.ret = FALSE THEN w4 ELSE attachDragListeners(w4, e)

\* handleDragStart from 'const shouldDelay' on.
handleDragStartArmed(w2, e, x, y) ==
  LET shouldDelay == (e.fam = "touch" \/ (isPointerEvent(e) /\ e.ptype = "touch"))
                       /\ getDragStartDelay > 0
      pending == shouldDelay \/ getDragStartThreshold > 0
  IN IF shouldDelay
     THEN attachDragListeners(
            [w2 EXCEPT !.core.pendingDragStart = TRUE,
                       !.core.pendingDragStartMode = "delay",
                       !.core.dragStartDelayEvent = e,
                       !.core.dragStartDelayTimerId = TRUE], e)
     ELSE IF pending
     THEN attachDragListeners(
            [w2 EXCEPT !.core.pendingDragStart = TRUE,
                       !.core.pendingDragStartMode = "threshold"], e)
     ELSE handleDragStartStarted(
            startDrag([w2 EXCEPT !.core.pendingDragStart = FALSE,
                                 !.core.pendingDragStartMode = "none"],
                      e, x, y, FALSE), e)

\* handleDragStart from 'const position' on (w1 carries the identifiers).
handleDragStartTracked(w1, e) ==
  LET position == getControlPosition(w1, e, w1.state.touchIdentifier) IN
  IF ~position.ok THEN w1
  ELSE handleDragStartArmed(
         [cancelDragRaf(w1) EXCEPT
                    !.core.draggingNode = TRUE,
                    !.core.pendingDragEvent = NoEvent,
                    !.state.lastX = position.x,
                    !.state.lastY = position.y,
                    !.core.lastProcessedX = position.x,
                    !.core.lastProcessedY = position.y,
                    !.core.dragStartDelayTimerId = FALSE,
                    !.core.suppressClickTimerId = FALSE,
                    !.core.suppressClickListener = FALSE,
                    !.core.dragStartDelayPassed = FALSE,
                    !.core.dragStartDelayEvent = NoEvent,
                    !.core.hasDragged = FALSE,
                    !.core.dragStartX = position.x,
                    !.core.dragStartY = position.y,
                    !.core.pendingX = position.x,
                    !.core.pendingY = position.y],
         e, position.x, position.y)

\* The press is a primary-button press on the handle, outside the cancel
\* selector; props.disabled is the remaining test.
handleDragStart(w, e) ==
  IF props.disabled THEN w
  ELSE handleDragStartTracked(
         [w EXCEPT !.state.pointerIdentifier = IF isPointerEvent(e) THEN e.id ELSE None,
                   !.state.touchIdentifier =
                      IF isPointerEvent(e) THEN None ELSE getTouchIdentifier(e)],
         e)

\* The callback of the drag-start delay timer.
\* The timer callback starting the drag at the anchor.
dragStartDelayTimeoutAtAnchor(w) ==
  IF ~w.core.pendingDragStart \/ w.core.pendingDragStartMode # "delay"
       \/ w.state.dragging \/ ~w.state.mounted
  THEN [w EXCEPT !.core.dragStartDelayTimerId = FALSE,
                 !.core.dragStartDelayPassed = TRUE]
  ELSE startDrag([w EXCEPT !.core.dragStartDelayTimerId = FALSE,
                           !.core.dragStartDelayPassed = TRUE],
                 w.core.dragStartDelayEvent,
                 w.core.dragStartX, w.core.dragStartY, TRUE)

dragStartDelayTimeout(w) ==
  IF ~w.core.pendingDragStart \/ w.core.pendingDragStartMode # "delay"
       \/ w.state.dragging \/ ~w.state.mounted
  THEN [w EXCEPT !.core.dragStartDelayTimerId = FALSE,
                 !.core.dragStartDelayPassed = TRUE]
  ELSE startDrag([w EXCEPT !.core.dragStartDelayTimerId = FALSE,
                           !.core.dragStartDelayPassed = TRUE],
                 w.core.dragStartDelayEvent,
                 IF IsFinite(w.core.pendingX) THEN w.core.pendingX ELSE w.core.dragStartX,
                 IF IsFinite(w.core.pendingY) THEN w.core.pendingY ELSE w.core.dragStartY,
                 TRUE)

getEventClientPosition(w, e) ==
  IF w.state.pointerIdentifier # None
  THEN isPointerEvent(e) /\ e.id = w.state.pointerIdentifier
  ELSE IF w.state.touchIdentifier # None
  THEN getTouch(e, w.state.touchIdentifier)
  ELSE e.fam \in {"mouse", "pointer"}

\* autoScrollTick after the containers scrolled: the last event is replayed
\* and the loop goes on while the gesture is dragging.
autoScrollReplayed(w2) ==
  IF w2.thrown \/ ~w2.state.dragging THEN w2 ELSE ensureAutoScrollRaf(w2)

autoScrollReplay(w1, lastEvent) ==
  IF props.useRafDrag
  THEN autoScrollReplayed(
         flushDragRaf([cancelDragRaf(w1) EXCEPT
                                 !.core.pendingDragEvent = lastEvent]))
  ELSE autoScrollReplayed(handleDrag(w1, lastEvent))

autoScrollLastEventOf(w) ==
  IF w.core.autoScrollLastEvent # NoEvent
  THEN w.core.autoScrollLastEvent ELSE w.core.pendingDragEvent

\* didScroll is what the scroll attempt on the containers gave: whether some
\* container moved on some axis (it moves one step to the right).
autoScrollTick(w, didScroll) ==
  IF ~props.autoScroll \/ ~w.state.dragging
       \/ w.core.autoScrollContainers = <<>>
       \/ autoScrollLastEventOf(w) = NoEvent
       \/ ~getEventClientPosition(w, autoScrollLastEventOf(w))
       \/ ~didScroll
  THEN [w EXCEPT !.core.autoScrollRafId = FALSE]
  ELSE autoScrollReplay([w EXCEPT !.core.autoScrollRafId = FALSE,
                                  !.doc.scroll = @ + 1,
                                  !.core.autoScrollLastEvent = autoScrollLastEventOf(w)],
                        autoScrollLastEventOf(w))

getAutoScrollThreshold ==
  IF props.autoScrollThreshold > 0 THEN props.autoScrollThreshold ELSE 0

getAutoScrollMaxSpeed ==
  IF props.autoScrollMaxSpeed > 0 THEN props.autoScrollMaxSpeed ELSE 0

\* calcAutoScrollSpeed rounding the speed down.
calcAutoScrollSpeedFloored(distanceToEdge, threshold, maxSpeed) ==
  IF threshold <= 0 \/ maxSpeed <= 0 THEN 0
  ELSE IF distanceToEdge >= threshold THEN 0
  ELSE ((threshold - MathMax(0, MathMin(distanceToEdge, threshold))) * maxSpeed)
         \div threshold

\* Math.ceil(((threshold - clamped) / threshold) * maxSpeed), for integers
\* and in exact arithmetic.
calcAutoScrollSpeed(distanceToEdge, threshold, maxSpeed) ==
  IF threshold <= 0 \/ maxSpeed <= 0 THEN 0
  ELSE IF distanceToEdge >= threshold THEN 0
  ELSE LET clamped == MathMax(0, MathMin(distanceToEdge, threshold))
           speed == ((threshold - clamped) * maxSpeed + threshold - 1) \div threshold
       IN IF speed > 0 THEN speed ELSE 0

\* One axis of getAutoScrollDeltaForElement and getAutoScrollDeltaForWindow:
\* the pointer is at client, the container spans near .. near + size.
getAutoScrollDeltaOnAxis(client, near, size, threshold, maxSpeed) ==
  LET thresholdA == MathMin(threshold, size \div 2)
      nearDist == Abs(client - near)
      farDist == Abs((near + size) - client)
  IN IF thresholdA <= 0 THEN 0
     ELSE IF ~(nearDist < thresholdA \/ farDist < thresholdA) THEN 0
     ELSE IF nearDist <= farDist THEN 0 - calcAutoScrollSpeed(nearDist, thresholdA, maxSpeed)
     ELSE calcAutoScrollSpeed(farDist, thresholdA, maxSpeed)

\* The rect of the box moves with the window's scroll; the window's own
\* area starts at 0.
getAutoScrollDelta(d, container, clientX, clientY) ==
  LET left == IF container = "window" THEN 0 ELSE 0 - d.scrollAt.window.x
      top == IF container = "window" THEN 0 ELSE 0 - d.scrollAt.window.y
  IN [dx |-> getAutoScrollDeltaOnAxis(clientX, left, props.viewSize,
                                      getAutoScrollThreshold, getAutoScrollMaxSpeed),
      dy |-> getAutoScrollDeltaOnAxis(clientY, top, props.viewSize,
                                      getAutoScrollThreshold, getAutoScrollMaxSpeed)]

\* scrollElementBy on one axis: the new scroll offset.
scrollElementBy(prev, max, delta) ==
  IF delta = 0 THEN prev ELSE MathMax(0, MathMin(prev + delta, MathMax(0, max)))

\* The loop of autoScrollTick scrolling every container that can scroll,
\* whatever has scrolled before it.
RECURSIVE autoScrollContainersLoopAll(_, _, _, _, _, _)
autoScrollContainersLoopAll(d, cs, clientX, clientY, didX, didY) ==
  IF cs = <<>> THEN d
  ELSE
    LET container == Head(cs)
        delta == getAutoScrollDelta(d, container, clientX, clientY)
        nextX == scrollElementBy(d.scrollAt[container].x, props.scrollMax[container].x, delta.dx)
        nextY == scrollElementBy(d.scrollAt[container].y, props.scrollMax[container].y, delta.dy)
    IN autoScrollContainersLoopAll(
         [d EXCEPT !.scrollAt[container] = [x |-> nextX, y |-> nextY],
                   !.scroll = @ + (nextX - d.scrollAt[container].x),
                   !.scrollY = @ + (nextY - d.scrollAt[container].y)],
         Tail(cs), clientX, clientY, didX, didY)

\* The loop of autoScrollTick over the containers cs, on the document d.
RECURSIVE autoScrollContainersLoop(_, _, _, _, _, _)
autoScrollContainersLoop(d, cs, clientX, clientY, didX, didY) ==
  IF cs = <<>> \/ (didX /\ didY) THEN d
  ELSE
    LET container == Head(cs)
        delta == getAutoScrollDelta(d, container, clientX, clientY)
        attemptX == IF didX THEN 0 ELSE delta.dx
        attemptY == IF didY THEN 0 ELSE delta.dy
        nextX == scrollElementBy(d.scrollAt[container].x, props.scrollMax[container].x, attemptX)
        nextY == scrollElementBy(d.scrollAt[container].y, props.scrollMax[container].y, attemptY)
        movedX == nextX - d.scrollAt[container].x
        movedY == nextY - d.scrollAt[container].y
    IN IF attemptX = 0 /\ attemptY = 0
       THEN autoScrollContainersLoop(d, Tail(cs), clientX, clientY, didX, didY)
       ELSE autoScrollContainersLoop(
              [d EXCEPT !.scrollAt[container] = [x |-> nextX, y |-> nextY],
                        !.scroll = @ + movedX,
                        !.scrollY = @ + movedY],
              Tail(cs), clientX, clientY, didX \/ movedX # 0, didY \/ movedY # 0)

\* autoScrollTick on a page whose geometry is known: the containers scroll
\* as far as the pointer's distance to their edges and their scroll limits
\* allow (autoScrollAxis is 'both').
autoScrollTickMeasured(w) ==
  LET lastEvent == autoScrollLastEventOf(w)
      scrolled == autoScrollContainersLoop(w.doc, w.core.autoScrollContainers,
                                           lastEvent.x, lastEvent.y, FALSE, FALSE)
  IN IF ~props.autoScroll \/ ~w.state.dragging
          \/ w.core.autoScrollContainers = <<>>
          \/ getAutoScrollThreshold = 0 \/ getAutoScrollMaxSpeed = 0
          \/ lastEvent = NoEvent
          \/ ~getEventClientPosition(w, lastEvent)
          \/ scrolled.scrollAt = w.doc.scrollAt
     THEN [w EXCEPT !.core.autoScrollRafId = FALSE]
     ELSE autoScrollReplay([w EXCEPT !.core.autoScrollRafId = FALSE,
                                     !.doc = scrolled,
                                     !.core.autoScrollLastEvent = lastEvent],
                           lastEvent)

runFrameCallback(w, cb, didScroll) ==
  IF cb = "drag" THEN flushDragRaf(w) ELSE autoScrollTick(w, didScroll)

\* The second callback of a frame, after the first has left the record w1:
\* it runs unless the first has cancelled it.
animationFrameSecond(w1, cb, didScroll) ==
  IF w1.doc.raf = <<>> \/ Head(w1.doc.raf) # cb THEN w1
  ELSE [runFrameCallback([w1 EXCEPT !.doc.raf = Tail(@), !.thrown = FALSE],
                         cb, didScroll)
          EXCEPT !.thrown = w1.thrown \/ @]

\* The callbacks of one frame (there are at most two).
animationFrame(w, didScroll) ==
  LET q == w.doc.raf IN
  IF Len(q) = 1
  THEN runFrameCallback([w EXCEPT !.doc.raf = Tail(q)], Head(q), didScroll)
  ELSE animationFrameSecond(
         CHOOSE w1 \in {runFrameCallback([w EXCEPT !.doc.raf = Tail(q)], Head(q), didScroll)} : TRUE,
         q[2], didScroll)

\* Pointer events drive a touch only when the node's computed touch-action
\* is neither empty nor 'auto'.
shouldUsePointerEventsForTouch(e) ==
  e.ptype # "touch" \/ props.touchAction # "auto"

onPointerdown(w, e) ==
  IF ~isPointerEvent(e) THEN w
  ELSE IF ~findDOMNode(w) THEN w
  ELSE IF ~shouldUsePointerEventsForTouch(e) THEN w
  ELSE handleDragStart(
         [w EXCEPT !.core.ignoreTouchStartUntil =
                      IF e.ptype = "touch" THEN "armed" ELSE @,
                   !.core.dragEventFor = "pointer"],
         e)

onMousedown(w, e) ==
  IF props.hasPointerEvent THEN w
  ELSE handleDragStart([w EXCEPT !.core.dragEventFor = "mouse"], e)

onMouseup(w, e) ==
  IF props.hasPointerEvent THEN w
  ELSE handleDragStop([w EXCEPT !.core.dragEventFor = "mouse"], e)

\* within: the touchstart arrives before ignoreTouchStartUntil.
onTouchStart(w, e, within) ==
  IF w.core.ignoreTouchStartUntil = "armed" /\ within
  THEN [w EXCEPT !.core.ignoreTouchStartUntil = "unset"]
  ELSE handleDragStart(
         [w EXCEPT !.core.ignoreTouchStartUntil = IF @ = "armed" THEN "expired" ELSE @,
                   !.core.dragEventFor = "touch"],
         e)

onTouchend(w, e) ==
  handleDragStop([w EXCEPT !.core.dragEventFor = "touch"], e)

onMounted(w) ==
  [w EXCEPT !.state.mounted = TRUE,
            !.doc.lifecycle = "mounted",
            !.doc.nodeRef = TRUE,
            !.doc.touchstart = TRUE]

\* refCleared: the framework has set the node ref to null before the
\* unmounted hooks run (it does unless nodeRef is a plain element).
onUnmounted(w, refCleared) ==
  LET w0 == [w EXCEPT !.doc.lifecycle = "unmounted",
                      !.doc.nodeRef = IF refCleared THEN FALSE ELSE @]
      w1 == [w0 EXCEPT !.state.mounted = FALSE, !.core.draggingNode = FALSE]
      w2 == releasePointerCapture(cancelAutoScrollRaf(clearClickSuppression(
              clearDragStartDelayTimer(cancelDragRaf(w1)))))
      w3 == [w2 EXCEPT !.state.pointerIdentifier = None,
                       !.state.touchIdentifier = None,
                       !.core.autoScrollContainers = <<>>,
                       !.core.autoScrollLastEvent = NoEvent]
      w4 == IF findDOMNode(w3)
            THEN [w3 EXCEPT !.doc.listeners = {},
                            !.doc.touchstart = FALSE,
                            !.doc.bodyClass = IF props.enableUserSelectHack THEN FALSE ELSE @]
            ELSE w3
  IN IF props.host = "draggable"
     THEN cancelFlush([w4 EXCEPT !.ui.dragging = FALSE])
     ELSE w4

\* The capture-phase click listener installed by installClickSuppression;
\* late: the click arrives after suppressUntil.
suppressClickHandler(w, late) ==
  clearClickSuppression([w EXCEPT !.doc.clickPrevented = ~late])

\* The callback of the click-suppression timer.
suppressClickTimeout(w) == clearClickSuppression(w)

----------------------------------------------------------------------------
(* History kept for the properties: the phase of the callback sequence    *)
(* before the handler that produced `calls` ran.                           *)
(*   open    a start callback of the core was accepted and no stop         *)
(*           callback has followed it                                      *)
(*   prev    the x/y the previous callback of the open gesture reported,   *)
(*           per layer (NaN when there is none)                            *)
(*   origin  with a grid, the position the start callback of the open      *)
(*           gesture reported to Draggable's user (NaN when there is none) *)

CallsOf(cs, layer) == SelectSeq(cs, LAMBDA c : c.layer = layer)

RECURSIVE AdvanceOpen(_, _)
AdvanceOpen(open, cs) ==
  IF cs = <<>> THEN open
  ELSE LET c == Head(cs)
           next == IF c.fn = "start" THEN c.ret
                   ELSE IF c.fn = "stop" THEN FALSE
                   ELSE open
       IN AdvanceOpen(next, Tail(cs))

RECURSIVE AdvancePrev(_, _)
AdvancePrev(prev, cs) ==
  IF cs = <<>> THEN prev
  ELSE LET c == Head(cs)
           next == IF c.fn = "stop" \/ (c.fn = "start" /\ ~c.ret)
                   THEN [x |-> NaN, y |-> NaN]
                   ELSE IF c.fn = "move" /\ ~c.ret THEN prev
                   ELSE [x |-> c.x, y |-> c.y]
       IN AdvancePrev(next, Tail(cs))

RECURSIVE AdvanceOrigin(_, _)
AdvanceOrigin(origin, cs) ==
  IF cs = <<>> THEN origin
  ELSE LET c == Head(cs)
           next == IF c.fn = "stop" \/ (c.fn = "start" /\ ~c.ret)
                   THEN [x |-> NaN, y |-> NaN]
                   ELSE IF c.fn = "start" THEN [x |-> c.x, y |-> c.y]
                   ELSE origin
       IN AdvanceOrigin(next, Tail(cs))

\* The position of the last callback the caller accepted in the gesture that
\* is under way: its start, or its last move that was not vetoed.  Only an
\* accepted stop ends the gesture.
RECURSIVE AdvanceKept(_, _)
AdvanceKept(kept, cs) ==
  IF cs = <<>> THEN kept
  ELSE LET c == Head(cs)
           next == IF (c.fn = "stop" /\ c.ret) \/ (c.fn = "start" /\ ~c.ret)
                   THEN [x |-> NaN, y |-> NaN]
                   ELSE IF c.fn = "stop" \/ (c.fn = "move" /\ ~c.ret) THEN kept
                   ELSE [x |-> c.x, y |-> c.y]
       IN AdvanceKept(next, Tail(cs))

Advance(h, cs) ==
  [steps |-> h.steps + 1,
   open |-> AdvanceOpen(h.open, CallsOf(cs, "core")),
   prev |-> AdvancePrev(h.prev, CallsOf(cs, "core")),
   uprev |-> AdvancePrev(h.uprev, CallsOf(cs, "user")),
   kept |-> AdvanceKept(h.kept, CallsOf(cs, "user")),
   origin |-> IF props.grid > 0 THEN AdvanceOrigin(h.origin, CallsOf(cs, "user"))
              ELSE h.origin,
   last |-> h.last,
   thrown |-> h.thrown]

----------------------------------------------------------------------------
(* Initial state: the component has been set up and is not mounted yet.    *)

MaxPos == 3
MaxFrames == 2
MaxScroll == 1

Threshold == 2
Tolerance == 1

\* The configurations explored: the caller's own callbacks on DraggableCore
\* in a browser with pointer events, in one without (mouse and touch events,
\* with a start threshold), with the deferred modes (start delay, frame
\* batching, auto-scroll), and the Draggable component hosting the core.
CoreDefault == [DefaultProps EXCEPT !.host = "core"]

CoreLegacy ==
  [DefaultProps EXCEPT !.host = "core", !.hasPointerEvent = FALSE,
                       !.dragStartThreshold = Threshold]

CoreDeferred ==
  [DefaultProps EXCEPT !.host = "core", !.touchAction = "auto",
                       !.useRafDrag = TRUE,
                       !.dragStartDelay = 1, !.dragStartDelayTolerance = Tolerance,
                       !.autoScroll = TRUE]

Hosted == [DefaultProps EXCEPT !.enableClickSuppression = TRUE]

InitState ==
  [dragging |-> FALSE, lastX |-> NaN, lastY |-> NaN,
   touchIdentifier |-> None, pointerIdentifier |-> None, mounted |-> FALSE]

InitCore ==
  [dragEventFor |-> "mouse",
   draggingNode |-> FALSE,
   dragRafId |-> FALSE,
   pendingDragEvent |-> NoEvent,
   lastProcessedX |-> NaN, lastProcessedY |-> NaN,
   pendingDragStart |-> FALSE,
   pendingDragStartMode |-> "none",
   dragStartX |-> NaN, dragStartY |-> NaN,
   pendingX |-> NaN, pendingY |-> NaN,
   dragStartDelayTimerId |-> FALSE,
   dragStartDelayPassed |-> FALSE,
   dragStartDelayEvent |-> NoEvent,
   hasDragged |-> FALSE,
   suppressClickListener |-> FALSE,
   suppressClickTimerId |-> FALSE,
   autoScrollRafId |-> FALSE,
   autoScrollContainers |-> <<>>,
   autoScrollLastEvent |-> NoEvent,
   pointerCaptureTarget |-> FALSE,
   ignoreTouchStartUntil |-> "unset"]

InitUi(p) ==
  LET x0 == IF p.position.has THEN p.position.x ELSE p.defaultPosition.x
      y0 == IF p.position.has THEN p.position.y ELSE p.defaultPosition.y
  IN [dragging |-> FALSE, dragged |-> FALSE,
      x |-> x0, y |-> y0, slackX |-> 0, slackY |-> 0,
      internalX |-> x0, internalY |-> y0,
      internalSlackX |-> 0, internalSlackY |-> 0,
      rafId |-> FALSE, frames |-> 0,
      directionLockAxis |-> "none",
      directionLockFixedX |-> NaN, directionLockFixedY |-> NaN,
      directionLockTotalX |-> 0, directionLockTotalY |-> 0]

InitDoc ==
  [lifecycle |-> "created", nodeRef |-> FALSE, touchstart |-> FALSE,
   listeners |-> {}, bodyClass |-> FALSE, capture |-> None,
   clickPrevented |-> FALSE, raf |-> <<>>, scroll |-> 0, peerDragging |-> FALSE,
   scrollY |-> 0, scrollAt |-> NoScroll,
   boundAdded |-> FALSE, boundCache |-> "unset", queries |-> 0]

InitHist ==
  [steps |-> 0, open |-> FALSE, prev |-> [x |-> NaN, y |-> NaN], uprev |-> [x |-> NaN, y |-> NaN],
   kept |-> [x |-> NaN, y |-> NaN],
   origin |-> [x |-> NaN, y |-> NaN], last |-> "other", thrown |-> FALSE]

InitWith(p) ==
  /\ props = p
  /\ state = InitState
  /\ core = InitCore
  /\ ui = InitUi(p)
  /\ doc = InitDoc
  /\ calls = <<>>
  /\ hist = InitHist

Init == InitWith(CoreDefault)

InitLegacy == InitWith(CoreLegacy)

InitDeferred == InitWith(CoreDeferred)

InitHosted == InitWith(Hosted)

----------------------------------------------------------------------------
(* Actions: one per event the browser or the framework delivers.           *)

PosInRange(v) == v = NaN \/ (v >= 0 - MaxPos * props.span /\ v <= MaxPos * props.span)

\* Keeps the position of the element and the frame queue within the bounds
\* of the model.
InRange(w) ==
  /\ PosInRange(w.ui.internalX) /\ PosInRange(w.ui.internalY)
  /\ PosInRange(w.ui.internalSlackX) /\ PosInRange(w.ui.internalSlackY)
  /\ PosInRange(w.ui.directionLockTotalX) /\ PosInRange(w.ui.directionLockTotalY)
  /\ w.ui.frames <= MaxFrames

\* kind tells what the step was ("move", "timer" or "other"); it is recorded
\* where a start delay is configured.  hist.thrown tells, where the bounds
\* resolve to no element, that the handler of the step threw.
CommitAs(kind, w) ==
  /\ hist.steps < MaxSteps
  /\ InRange(w)
  /\ state' = w.state
  /\ core' = w.core
  /\ ui' = w.ui
  /\ doc' = w.doc
  /\ calls' = w.calls
  /\ hist' = [Advance(hist, calls) EXCEPT
                !.last = IF props.dragStartDelay > 0 THEN kind ELSE "other",
                !.thrown = props.bounds.missing /\ w.thrown]
  /\ UNCHANGED props

Commit(w) == CommitAs("other", w)

Mounted == doc.lifecycle = "mounted"

\* Runs handler h under every answer the caller's callbacks can give; the
\* answers matter only when the handler invokes a callback.
RunAs(kind, h(_)) ==
  LET r == h(Cur(AllTrue)) IN
  IF r.calls = <<>> THEN CommitAs(kind, r)
  ELSE \E u \in UserChoices : CommitAs(kind, h(Cur(u)))

Run(h(_)) == RunAs("other", h)

Mount ==
  /\ doc.lifecycle = "created"
  /\ Run(LAMBDA w : onMounted(w))

\* The element's own listeners run while it is in the document.
PointerDown ==
  /\ Mounted
  /\ props.hasPointerEvent
  /\ \E e \in {p \in PointerEvents : IsPress(p)} : Run(LAMBDA w : onPointerdown(w, e))

MouseDown ==
  /\ Mounted
  /\ \E e \in {p \in MouseEvents : IsPress(p)} : Run(LAMBDA w : onMousedown(w, e))

\* within: the touchstart arrives within 100 ms of the pointerdown that armed
\* ignoreTouchStartUntil.
TouchStart ==
  /\ Mounted
  /\ doc.touchstart
  /\ \E e \in {p \in TouchEvents : IsPress(p)} :
       \E within \in (IF core.ignoreTouchStartUntil = "armed" THEN BOOLEAN ELSE {FALSE}) :
         Run(LAMBDA w : onTouchStart(w, e, within))

\* The primary button of the mouse goes down on the element: the browser
\* fires pointerdown for a mouse only when no button was down, so no gesture
\* of the instance is under way.
PrimaryDown ==
  /\ Mounted
  /\ props.hasPointerEvent
  /\ ~state.dragging /\ ~core.pendingDragStart
  /\ \E e \in {p \in PointerEvents : IsPress(p) /\ p.ptype = "mouse"} :
       Run(LAMBDA w : onPointerdown(w, e))

\* No gesture of the instance is under way.
Idle == ~state.dragging /\ ~core.pendingDragStart

\* One pointer at a time: a press arrives only when no gesture is under way.
PointerPress == Idle /\ PointerDown

MousePress == Idle /\ MouseDown

TouchPress == Idle /\ TouchStart

\* A move event reaches the document listener the instance attached.
DocumentMoveOf(e) ==
  /\ eventsFor[e.fam].move \in doc.listeners
  /\ RunAs("move", LAMBDA w : handleDrag(w, e))

DocumentMove ==
  \E name \in doc.listeners \cap MoveEvents :
    \E e \in EventsOf(FamilyOf(name)) : DocumentMoveOf(e)

\* A mouseup is dispatched to the document listener (capture phase), when
\* attached, and then to the element's onMouseup when the pointer is over
\* the element.
MouseUpEvent(w, e, onElement) ==
  IF onElement
  THEN onMouseup(IF "mouseup" \in w.doc.listeners THEN handleDragStop(w, e) ELSE w, e)
  ELSE handleDragStop(w, e)

MouseUp ==
  \E e \in MouseEvents, onElement \in BOOLEAN :
    /\ IF onElement THEN Mounted ELSE "mouseup" \in doc.listeners
    /\ Run(LAMBDA w : MouseUpEvent(w, e, onElement))

\* A touchend is dispatched to the document listener, when attached, and
\* then to the element's onTouchend when the touch began on the element.  A
\* touchcancel reaches the document listener only.
TouchEndEvent(w, e, onElement) ==
  IF onElement
  THEN onTouchend(IF "touchend" \in w.doc.listeners THEN handleDragStop(w, e) ELSE w, e)
  ELSE handleDragStop(w, e)

TouchEndOf(e, onElement) ==
  /\ IF onElement THEN Mounted
     ELSE doc.listeners \cap {"touchend", "touchcancel"} # {}
  /\ Run(LAMBDA w : TouchEndEvent(w, e, onElement))

TouchEnd == \E e \in TouchEvents, onElement \in BOOLEAN : TouchEndOf(e, onElement)

\* The browser drops the capture of a pointer that is released.
ImplicitRelease(w, e) ==
  [w EXCEPT !.doc.capture = IF isPointerEvent(e) /\ e.id = @ THEN None ELSE @]

\* A pointerup or pointercancel reaches the document listener.
PointerUpOf(e) ==
  /\ doc.listeners \cap {"pointerup", "pointercancel"} # {}
  /\ Run(LAMBDA w : ImplicitRelease(handleDragStop(w, e), e))

PointerUp == \E e \in PointerEvents : PointerUpOf(e)

DelayTimer ==
  /\ core.dragStartDelayTimerId
  /\ RunAs("timer", LAMBDA w : dragStartDelayTimeout(w))

\* The container can scroll MaxScroll steps.
CanScroll == IF doc.scroll < MaxScroll THEN BOOLEAN ELSE {FALSE}

DragFrame ==
  /\ core.dragRafId
  /\ Run(LAMBDA w : flushDragRaf(cancelAnimationFrame(w, "drag")))

AutoScrollFrame ==
  /\ core.autoScrollRafId
  /\ \E didScroll \in CanScroll :
       Run(LAMBDA w : autoScrollTick(cancelAnimationFrame(w, "scroll"), didScroll))

\* The auto-scroll frame on a page whose geometry is known.
ScrollFrame ==
  /\ core.autoScrollRafId
  /\ Run(LAMBDA w : autoScrollTickMeasured(cancelAnimationFrame(w, "scroll")))

\* One animation frame: the window runs the callbacks requested before the
\* frame in the order of their requests; a callback cancelled by an earlier
\* one does not run, and one requested during the frame waits for the next.
AnimationFrame ==
  /\ doc.raf # <<>>
  /\ \E didScroll \in CanScroll : Run(LAMBDA w : animationFrame(w, didScroll))

FlushFrame ==
  /\ ui.frames > 0
  /\ Run(LAMBDA w : flushToReactiveState([w EXCEPT !.ui.frames = @ - 1]))

\* A click reaches the document while the suppression listener is installed.
Click ==
  /\ core.suppressClickListener
  /\ \E late \in BOOLEAN : Run(LAMBDA w : suppressClickHandler(w, late))

ClickSuppressionTimer ==
  /\ core.suppressClickTimerId
  /\ Run(LAMBDA w : suppressClickTimeout(w))

Unmount ==
  /\ Mounted
  /\ \E refCleared \in BOOLEAN : Run(LAMBDA w : onUnmounted(w, refCleared))

\* The events of a browser with pointer events.
Next ==
  \/ Mount
  \/ PointerDown
  \/ MouseDown
  \/ TouchStart
  \/ DocumentMove
  \/ MouseUp
  \/ TouchEnd
  \/ PointerUp
  \/ Unmount

\* The events of a browser without pointer events.
NextLegacy ==
  \/ Mount
  \/ MouseDown
  \/ TouchStart
  \/ DocumentMove
  \/ MouseUp
  \/ TouchEnd
  \/ Unmount

NextDeferred ==
  \/ Next
  \/ DelayTimer
  \/ DragFrame
  \/ AutoScrollFrame

NextHosted ==
  \/ Next
  \/ FlushFrame
  \/ Click
  \/ ClickSuppressionTimer

Spec == Init /\ [][Next]_vars

SpecLegacy == InitLegacy /\ [][NextLegacy]_vars

SpecDeferred == InitDeferred /\ [][NextDeferred]_vars

SpecHosted == InitHosted /\ [][NextHosted]_vars

----------------------------------------------------------------------------
(* The movement policies of Draggable, driven by one mouse: a press, moves  *)
(* and the release of the primary pointer.                                  *)

NextPrimary ==
  \/ Mount
  \/ PrimaryDown
  \/ DocumentMove
  \/ PointerUp

\* bounds {left: 0, right: 100, top: 0, bottom: 100} around an element that
\* starts at (50, 50); the pointer goes down at 0 and visits 80 and 30.
BoundedProps ==
  [DefaultProps EXCEPT
     !.bounds = [has |-> TRUE, missing |-> FALSE, left |-> 0, right |-> 100, top |-> 0, bottom |-> 100],
     !.defaultPosition = [x |-> 50, y |-> 50],
     !.pageX = {0, 30, 80},
     !.pageY = {0},
     !.span = 50]

InitBounded == InitWith(BoundedProps)

SpecBounded == InitBounded /\ [][NextPrimary]_vars

\* Every restricted axis, without bounds and with the bounds {0, 20, 0, 20},
\* from a starting position inside the bounds and from one outside; the
\* pointer moves by 10 on each axis.
AxisProps ==
  { [DefaultProps EXCEPT !.axis = ax, !.bounds = b, !.defaultPosition = d,
                         !.pageX = {0, 10}, !.pageY = {0, 10}, !.span = 10] :
      ax \in {"x", "y", "none"},
      b \in {NoBounds, [has |-> TRUE, missing |-> FALSE, left |-> 0, right |-> 20, top |-> 0, bottom |-> 20]},
      d \in {[x |-> 0, y |-> 0], [x |-> 30, y |-> 30]} }

InitAxis == \E p \in AxisProps : InitWith(p)

SpecAxis == InitAxis /\ [][NextPrimary]_vars

\* Direction lock, choosing the axis on the first move (threshold 0) or once
\* the pointer is 12 away from the press, without bounds and with the bounds
\* {0, 20, 0, 20}, from a starting position inside the bounds and from one
\* outside.
LockProps ==
  { [DefaultProps EXCEPT !.directionLock = TRUE, !.directionLockThreshold = t,
                         !.bounds = b, !.defaultPosition = d,
                         !.pageX = {0, 10}, !.pageY = {0, 10}, !.span = 10] :
      t \in {0, 12},
      b \in {NoBounds, [has |-> TRUE, missing |-> FALSE, left |-> 0, right |-> 20, top |-> 0, bottom |-> 20]},
      d \in {[x |-> 0, y |-> 0], [x |-> 30, y |-> 30]} }

InitLock == \E p \in LockProps : InitWith(p)

SpecLock == InitLock /\ [][NextPrimary]_vars

\* grid [5, 5] under every movement policy: all axes or x only, direction
\* lock off or on, no bounds or the bounds {0, 8, 0, 8}; the pointer goes
\* down at (0, 0) and visits x in {2, 4, 10} and y in {0, 4}.
GridProps ==
  { [DefaultProps EXCEPT !.grid = 5, !.axis = ax, !.directionLock = l, !.bounds = b,
                         !.pageX = {0, 2, 4, 10}, !.pageY = {0, 4}, !.span = 5] :
      ax \in {"both", "x"},
      l \in BOOLEAN,
      b \in {NoBounds, [has |-> TRUE, missing |-> FALSE, left |-> 0, right |-> 8, top |-> 0, bottom |-> 8]} }

InitGrid == \E p \in GridProps : InitWith(p)

SpecGrid == InitGrid /\ [][NextPrimary]_vars

----------------------------------------------------------------------------
(* Frame batching (useRafDrag) of DraggableCore, without and with           *)
(* auto-scroll, one pointer at a time.                                      *)

NextFrames ==
  \/ Mount
  \/ PointerPress
  \/ DocumentMove
  \/ PointerUp
  \/ AnimationFrame

FramesProps ==
  { [DefaultProps EXCEPT !.host = "core", !.useRafDrag = TRUE,
                         !.autoScroll = a] : a \in BOOLEAN }

InitFrames == \E p \in FramesProps : InitWith(p)

SpecFrames == InitFrames /\ [][NextFrames]_vars

----------------------------------------------------------------------------
(* Gesture qualification of DraggableCore, one pointer at a time, in a     *)
(* browser with pointer events and in one without.                          *)

NextQualify ==
  \/ Mount
  \/ PointerPress
  \/ MousePress
  \/ TouchPress
  \/ DocumentMove
  \/ MouseUp
  \/ TouchEnd
  \/ PointerUp
  \/ DelayTimer

\* dragStartThreshold 10, dragStartDelay 300 ms (with the default tolerance
\* 5, or with none), or both; the pointer goes down at 0 and visits 3, 5, 8,
\* 10 and 11.
QualifyProps ==
  { [DefaultProps EXCEPT !.host = "core", !.hasPointerEvent = pe,
                         !.dragStartThreshold = q[1],
                         !.dragStartDelay = q[2],
                         !.dragStartDelayTolerance = q[3],
                         !.pageX = {0, 3, 5, 8, 10, 11}, !.pageY = {0},
                         !.span = 5] :
      pe \in BOOLEAN,
      q \in {<<10, 0, 5>>, <<10, 300, 5>>, <<0, 300, 5>>, <<0, 300, 0>>} }

InitQualify == \E p \in QualifyProps : InitWith(p)

SpecQualify == InitQualify /\ [][NextQualify]_vars

----------------------------------------------------------------------------
(* One physical press at a time in a browser with pointer events, where a  *)
(* press is reported as a pointer event and again as a touch or a mouse    *)
(* event.                                                                   *)

\* A touchstart that is either the touch report of the press whose
\* pointerdown armed the ignore window, arriving within it, or a press of
\* its own when no gesture is under way.
TouchStartInTime ==
  /\ Mounted
  /\ doc.touchstart
  /\ core.ignoreTouchStartUntil = "armed" \/ Idle
  /\ \E e \in {p \in TouchEvents : IsPress(p)} :
       Run(LAMBDA w : onTouchStart(w, e, TRUE))

NextPress ==
  \/ Mount
  \/ PointerPress
  \/ TouchStartInTime
  \/ MouseDown
  \/ DocumentMove
  \/ MouseUp
  \/ TouchEnd
  \/ PointerUp

\* touch-action 'none' (a touch is driven by pointer events) and 'auto' (it
\* is driven by touch events).
PressProps ==
  { [DefaultProps EXCEPT !.host = "core", !.touchAction = t] :
      t \in {"none", "auto"} }

InitPress == \E p \in PressProps : InitWith(p)

SpecPress == InitPress /\ [][NextPress]_vars

----------------------------------------------------------------------------
(* Two instances on one document: this one, and a peer DraggableCore (with  *)
(* enableUserSelectHack) of which the model keeps whether it is dragging    *)
(* and what its handlers do to the body of the shared document.             *)

\* The peer's startDrag, its start callback having accepted the gesture.
PeerStartDrag ==
  /\ ~doc.peerDragging
  /\ Run(LAMBDA w : addUserSelectStyles([w EXCEPT !.doc.peerDragging = TRUE]))

\* The peer's handleDragStop, its stop callback having accepted the stop.
PeerStopDrag ==
  /\ doc.peerDragging
  /\ Run(LAMBDA w : removeUserSelectStyles([w EXCEPT !.doc.peerDragging = FALSE]))

NextShared ==
  \/ Mount
  \/ PointerPress
  \/ DocumentMove
  \/ PointerUp
  \/ Unmount
  \/ PeerStartDrag
  \/ PeerStopDrag

SpecShared == Init /\ [][NextShared]_vars

----------------------------------------------------------------------------
(* Draggable with bounds given by a selector, which resolves to an element  *)
(* (of the extent {0, 20, 0, 20}) or to none, without and with frame        *)
(* batching.                                                                *)

NextSelector ==
  \/ Mount
  \/ PrimaryDown
  \/ DocumentMove
  \/ PointerUp
  \/ DragFrame
  \/ FlushFrame

SelectorProps ==
  { [DefaultProps EXCEPT
       !.useRafDrag = r,
       !.bounds = [has |-> TRUE, missing |-> m, left |-> 0, right |-> 20,
                   top |-> 0, bottom |-> 20],
       !.pageX = {0, 10, 30}, !.pageY = {0, 30},
       !.span = 10] :
      r \in BOOLEAN, m \in BOOLEAN }

InitSelector == \E p \in SelectorProps : InitWith(p)

SpecSelector == InitSelector /\ [][NextSelector]_vars

----------------------------------------------------------------------------
(* DraggableCore whose parent switches the disabled option, at rest and     *)
(* during a gesture; without qualification, with a threshold and with a     *)
(* delay.                                                                   *)

\* The parent renders the component with another value of disabled.  The
\* component watches no option: the render runs no handler.
SetDisabled ==
  /\ hist.steps < MaxSteps
  /\ props' = [props EXCEPT !.disabled = ~@]
  /\ calls' = <<>>
  /\ hist' = Advance(hist, calls)
  /\ UNCHANGED <<state, core, ui, doc>>

NextDisabled ==
  \/ Mount
  \/ PointerPress
  \/ DocumentMove
  \/ PointerUp
  \/ DelayTimer
  \/ SetDisabled

DisabledProps ==
  { [DefaultProps EXCEPT !.host = "core",
                         !.disabled = d,
                         !.dragStartThreshold = q[1],
                         !.dragStartDelay = q[2],
                         !.dragStartDelayTolerance = q[3],
                         !.pageX = {0, 5, 11}, !.pageY = {0},
                         !.span = 5] :
      d \in BOOLEAN,
      q \in {<<0, 0, 0>>, <<10, 0, 0>>, <<0, 300, 5>>} }

InitDisabled == \E p \in DisabledProps : InitWith(p)

SpecDisabled == InitDisabled /\ [][NextDisabled]_vars

----------------------------------------------------------------------------
(* A controlled Draggable: the position option is defined, and the parent   *)
(* may set it anew.                                                         *)

\* The positions the parent hands down.
ControlledAt == {5, 6}

\* The parent renders the component with another position.  The component
\* watches no option: the render runs no handler.
SetPosition ==
  /\ hist.steps < MaxSteps
  /\ \E v \in ControlledAt \ {props.position.x} :
       props' = [props EXCEPT !.position = [has |-> TRUE, x |-> v, y |-> v]]
  /\ calls' = <<>>
  /\ hist' = Advance(hist, calls)
  /\ UNCHANGED <<state, core, ui, doc>>

NextControlled ==
  \/ Mount
  \/ PrimaryDown
  \/ DocumentMove
  \/ PointerUp
  \/ FlushFrame
  \/ SetPosition

ControlledProps ==
  [DefaultProps EXCEPT !.position = [has |-> TRUE, x |-> 5, y |-> 5],
                       !.span = 5]

InitControlled == InitWith(ControlledProps)

SpecControlled == InitControlled /\ [][NextControlled]_vars

----------------------------------------------------------------------------
(* A gesture that waits for its qualification (a start threshold of 10 for  *)
(* the mouse, a start delay for a finger), without and with frame batching, *)
(* and is released, cancelled or unmounted.                                 *)

NextPending ==
  \/ Mount
  \/ PointerPress
  \/ DocumentMove
  \/ PointerUp
  \/ DelayTimer
  \/ DragFrame
  \/ Unmount

PendingProps ==
  { [DefaultProps EXCEPT !.host = "core",
                         !.useRafDrag = r,
                         !.dragStartThreshold = q[1],
                         !.dragStartDelay = q[2],
                         !.dragStartDelayTolerance = q[3],
                         !.pageX = {0, 5, 11}, !.pageY = {0},
                         !.span = 5] :
      r \in BOOLEAN,
      q \in {<<10, 0, 0>>, <<0, 300, 5>>} }

InitPending == \E p \in PendingProps : InitWith(p)

SpecPending == InitPending /\ [][NextPending]_vars

----------------------------------------------------------------------------
(* Auto-scroll on a page whose geometry is known: the element lies in a     *)
(* scrollable box that fills the window (both 8 wide and high), the edge    *)
(* zones are 1 or 2 deep, and the box may have been scrolled before the     *)
(* gesture.  Without and with frame batching, without and with a grid.      *)

NextScroll ==
  \/ Mount
  \/ PointerPress
  \/ DocumentMove
  \/ PointerUp
  \/ DragFrame
  \/ ScrollFrame

\* The pages explored: an edge zone 1 deep at speed 1 around a box that has
\* been scrolled and scrolls on both axes, as the window does; an edge zone
\* 2 deep at speed 2 around a box that scrolls horizontally only; and the
\* same around a box that does not scroll.
ScrollPages ==
  { [threshold |-> 1, maxSpeed |-> 1, start |-> 1,
     max |-> [box |-> [x |-> 2, y |-> 1], window |-> [x |-> 1, y |-> 1]]],
    [threshold |-> 2, maxSpeed |-> 2, start |-> 0,
     max |-> [box |-> [x |-> 2, y |-> 0], window |-> [x |-> 1, y |-> 1]]],
    [threshold |-> 2, maxSpeed |-> 2, start |-> 0,
     max |-> [box |-> [x |-> 0, y |-> 0], window |-> [x |-> 1, y |-> 0]]] }

\* Immediate moves without and with the grid [5, 5], and frame batching.
ScrollProps ==
  { [DefaultProps EXCEPT !.host = "core",
                         !.autoScroll = TRUE,
                         !.useRafDrag = q[1],
                         !.grid = q[2],
                         !.autoScrollThreshold = page.threshold,
                         !.autoScrollMaxSpeed = page.maxSpeed,
                         !.viewSize = 8,
                         !.scrollMax = page.max,
                         !.scrollStart = page.start,
                         !.pageX = {0, 1, 7, 8}, !.pageY = {0, 8}] :
      q \in {<<FALSE, 0>>, <<FALSE, 5>>, <<TRUE, 0>>}, page \in ScrollPages }

InitScroll ==
  \E p \in ScrollProps :
    /\ props = p
    /\ state = InitState
    /\ core = InitCore
    /\ ui = InitUi(p)
    /\ doc = [InitDoc EXCEPT !.scroll = p.scrollStart,
                             !.scrollAt.box.x = p.scrollStart]
    /\ calls = <<>>
    /\ hist = InitHist

SpecScroll == InitScroll /\ [][NextScroll]_vars

----------------------------------------------------------------------------
(* The auto-scroll speed: edge zones 3 and 4 deep at maximum speeds 1, 2    *)
(* and 3 around a box 8 wide that can scroll 12 either way; the pointer     *)
(* rests at every distance from the left edge up to the middle, and at the  *)
(* right edge.                                                              *)

NextSpeed ==
  \/ Mount
  \/ PointerPress
  \/ DocumentMove
  \/ PointerUp
  \/ ScrollFrame

SpeedProps ==
  { [DefaultProps EXCEPT !.host = "core",
                         !.autoScroll = TRUE,
                         !.autoScrollThreshold = t,
                         !.autoScrollMaxSpeed = m,
                         !.viewSize = 8,
                         !.scrollMax = [box |-> [x |-> 24, y |-> 0],
                                        window |-> [x |-> 0, y |-> 0]],
                         !.scrollStart = 12,
                         !.pageX = {0, 1, 2, 3, 4, 8}, !.pageY = {0}] :
      t \in {3, 4}, m \in {1, 2, 3} }

InitSpeed ==
  \E p \in SpeedProps :
    /\ props = p
    /\ state = InitState
    /\ core = InitCore
    /\ ui = InitUi(p)
    /\ doc = [InitDoc EXCEPT !.scroll = p.scrollStart,
                             !.scrollAt.box.x = p.scrollStart]
    /\ calls = <<>>
    /\ hist = InitHist

SpecSpeed == InitSpeed /\ [][NextSpeed]_vars

----------------------------------------------------------------------------
(* The stop path of Draggable, uncontrolled and controlled (position        *)
(* option (5, 5)), without and with frame batching, direction lock and the  *)
(* bounds {0, 8, 0, 8}.                                                     *)

StopProps ==
  { [DefaultProps EXCEPT
       !.position = c, !.useRafDrag = r, !.directionLock = l, !.bounds = b,
       !.pageX = {0, 5, 10}, !.pageY = {0, 5}, !.span = 5] :
      c \in {[has |-> FALSE, x |-> 0, y |-> 0], [has |-> TRUE, x |-> 5, y |-> 5]},
      r \in BOOLEAN,
      l \in BOOLEAN,
      b \in {NoBounds, [has |-> TRUE, missing |-> FALSE, left |-> 0, right |-> 8, top |-> 0, bottom |-> 8]} }

InitStop == \E p \in StopProps : InitWith(p)

SpecStop == InitStop /\ [][NextSelector]_vars

----------------------------------------------------------------------------
(* Draggable with scale 1 and 2, without and with dragStartThreshold 8,     *)
(* direction lock (threshold 8) and the bounds {0, 6, 0, 6}; the pointer    *)
(* visits client positions that are multiples of 4.                         *)

ScaleProps ==
  { [DefaultProps EXCEPT
       !.scale = s, !.dragStartThreshold = t,
       !.directionLock = l, !.directionLockThreshold = 8, !.bounds = b,
       !.pageX = {0, 4, 8, 16}, !.pageY = {0, 8}, !.span = 8] :
      s \in {1, 2},
      t \in {0, 8},
      l \in BOOLEAN,
      b \in {NoBounds, [has |-> TRUE, missing |-> FALSE, left |-> 0, right |-> 6, top |-> 0, bottom |-> 6]} }

InitScale == \E p \in ScaleProps : InitWith(p)

SpecScale == InitScale /\ [][NextPrimary]_vars

----------------------------------------------------------------------------
(* Draggable with bounds given by a selector that matches an element (of    *)
(* the extent {0, 20, 0, 20}) or none at first; a matching element can be   *)
(* added to the document later.  The component is mounted.                  *)

\* Another part of the page inserts an element the selector matches.
AddBoundElement ==
  /\ props.boundsSelector /\ props.bounds.missing /\ ~doc.boundAdded
  /\ doc' = [doc EXCEPT !.boundAdded = TRUE]
  /\ UNCHANGED <<props, state, core, ui, calls, hist>>

NextBoundsCache ==
  \/ PrimaryDown
  \/ DocumentMove
  \/ PointerUp
  \/ AddBoundElement

BoundsCacheProps ==
  { [DefaultProps EXCEPT
       !.boundsSelector = TRUE,
       !.bounds = [has |-> TRUE, missing |-> m, left |-> 0, right |-> 20,
                   top |-> 0, bottom |-> 20],
       !.pageX = {0, 10, 30}, !.pageY = {0, 30},
       !.span = 10] :
      m \in BOOLEAN }

InitBoundsCache ==
  \E p \in BoundsCacheProps :
    /\ props = p
    /\ LET w == onMounted([state |-> InitState, core |-> InitCore, ui |-> InitUi(p),
                           doc |-> InitDoc, calls |-> <<>>, user |-> AllTrue,
                           ret |-> TRUE, thrown |-> FALSE])
       IN /\ state = w.state
          /\ core = w.core
          /\ ui = w.ui
          /\ doc = w.doc
    /\ calls = <<>>
    /\ hist = InitHist

SpecBoundsCache == InitBoundsCache /\ [][NextBoundsCache]_vars

----------------------------------------------------------------------------
(* Properties.  calls holds the callbacks the last handler invoked and hist *)
(* the phase of the callback sequence before that handler ran.              *)

CoreCalls == CallsOf(calls, "core")

UserCalls == CallsOf(calls, "user")

HasCall(cs, fn) == \E i \in 1 .. Len(cs) : cs[i].fn = fn

CountCalls(cs, fn) == Cardinality({i \in 1 .. Len(cs) : cs[i].fn = fn})

\* The callbacks cs, invoked in this order from a phase where a gesture is
\* open or not, fit start, move*, stop: start only when no gesture is open,
\* move and stop only when one is.
RECURSIVE OrderOK(_, _)
OrderOK(open, cs) ==
  IF cs = <<>> THEN TRUE
  ELSE /\ (IF Head(cs).fn = "start" THEN ~open ELSE open)
       /\ OrderOK(AdvanceOpen(open, <<Head(cs)>>), Tail(cs))

\* C1: the callbacks DraggableCore invokes form, per gesture, start, move*,
\* stop: a move or stop callback never fires without a preceding start of
\* the same gesture (in particular stop fires once), and start never fires a
\* second time without a stop in between.
C1_CallbackOrder == OrderOK(hist.open, CoreCalls)

\* The move, stop and cancel listeners of an event family.
FamilyListeners(fam) ==
  {eventsFor[fam].move, eventsFor[fam].stop, eventsFor[fam].cancel} \ {"none"}

\* The instance is idle as the stop path leaves it.
StopPathRan ==
  /\ ~state.dragging
  /\ state.lastX = NaN /\ state.lastY = NaN
  /\ state.touchIdentifier = None /\ state.pointerIdentifier = None
  /\ doc.listeners \cap FamilyListeners(core.dragEventFor) = {}

\* C2: the stop callback has no veto over cleanup: whatever it returned, once
\* it has returned the instance is idle (dragging flag false, lastX/lastY
\* unset, identifiers cleared, selection class removed) and the document
\* listeners of the gesture are removed.
C2_StopHasNoVeto ==
  HasCall(CoreCalls, "stop") => (StopPathRan /\ ~doc.bodyClass)

VetoedMove == \E i \in 1 .. Len(CoreCalls) : CoreCalls[i].fn = "move" /\ ~CoreCalls[i].ret

\* C3: a move callback that returns false is followed, within the same
\* handler, by exactly one stop callback and the full stop path, and the
\* vetoed move is not committed: the position and the slack of the element
\* are what they were before the move.
C3_MoveVetoStops ==
  [][ VetoedMove' =>
        /\ CountCalls(CoreCalls', "stop") = 1
        /\ CoreCalls'[Len(CoreCalls')].fn = "stop"
        /\ StopPathRan'
        /\ ui'.internalX = ui.internalX /\ ui'.internalY = ui.internalY
        /\ ui'.internalSlackX = ui.internalSlackX
        /\ ui'.internalSlackY = ui.internalSlackY ]_vars

RefusedStart == \E i \in 1 .. Len(CoreCalls) : CoreCalls[i].fn = "start" /\ ~CoreCalls[i].ret

\* C4: a start callback that returns false ends the gesture as if it had
\* never started: not dragging, nothing pending, identifiers cleared, no
\* move/stop/cancel listener of the instance left on the document, and no
\* move or stop callback.
C4_StartVetoAborts ==
  RefusedStart =>
    /\ ~state.dragging
    /\ ~core.pendingDragStart
    /\ state.touchIdentifier = None /\ state.pointerIdentifier = None
    /\ doc.listeners = {}
    /\ ~HasCall(CoreCalls, "move") /\ ~HasCall(CoreCalls, "stop")

\* C5: while the instance is dragging, a further pointer-down on its element
\* (pointerdown, mousedown or touchstart) is ignored: the identifiers,
\* lastX/lastY and the dragging flag are unchanged and start is not invoked.
C5_SecondPressIgnored ==
  [][ (state.dragging /\ (PointerDown \/ MouseDown \/ TouchStart)) =>
        (state' = state /\ ~HasCall(calls', "start")) ]_vars

\* Move/stop/cancel listeners of the instance are on the document exactly
\* when a gesture is pending or dragging.
ListenersIffActive ==
  (doc.listeners # {}) <=> (state.dragging \/ core.pendingDragStart)

\* C6: the listeners of the instance are on the document if and only if a
\* gesture is pending or dragging; it is stated for the states a release
\* event (mouseup, touchend, touchcancel, pointerup, pointercancel) leaves,
\* whichever event family delivers the release.
C6_ListenersIffActive ==
  [][ (MouseUp \/ TouchEnd \/ PointerUp) => (Mounted' => ListenersIffActive') ]_vars

\* C7: unmounting while a gesture is dragging invokes the stop callback, so
\* that no gesture is left open (started and not stopped) once the component
\* is unmounted.
C7_UnmountStops ==
  doc.lifecycle = "unmounted" => ~AdvanceOpen(hist.open, CoreCalls)

\* C8: once the component is unmounted no resource of the instance is left:
\* no delay timer, no scheduled frame, no pointer capture, no selection class
\* on the body, no click-suppression listener and no document listener.
C8_UnmountReleases ==
  doc.lifecycle = "unmounted" =>
    /\ ~core.dragStartDelayTimerId
    /\ ~core.dragRafId /\ ~core.autoScrollRafId
    /\ doc.capture = None /\ ~core.pointerCaptureTarget
    /\ ~doc.bodyClass
    /\ ~core.suppressClickListener /\ ~core.suppressClickTimerId
    /\ doc.listeners = {}

\* The event does not carry the identifier the gesture is bound to.
Untracked(e) ==
  \/ state.pointerIdentifier # None /\ isPointerEvent(e) /\ e.id # state.pointerIdentifier
  \/ state.touchIdentifier # None /\ e.fam = "touch" /\ e.id # state.touchIdentifier

GestureState ==
  <<state.dragging, core.pendingDragStart, core.pendingDragStartMode,
    core.dragStartX, core.dragStartY, state.lastX, state.lastY,
    state.touchIdentifier, state.pointerIdentifier,
    core.pendingDragEvent, core.dragRafId,
    core.autoScrollLastEvent, core.autoScrollContainers, core.autoScrollRafId>>

\* C9: a move, release or cancel event that does not carry the bound
\* touch/pointer identifier fires no callback and leaves the gesture state
\* unchanged: flags, anchor, lastX/lastY, identifiers, buffered frame event
\* and auto-scroll state.
C9_UntrackedIgnored ==
  [][ \A e \in TouchEvents \cup PointerEvents :
        (Untracked(e) /\ (DocumentMoveOf(e) \/ TouchEndOf(e, FALSE) \/ PointerUpOf(e)))
          => (calls' = <<>> /\ GestureState' = GestureState) ]_vars

\* The move callbacks among cs report deltaX = x - lastX, deltaY = y - lastY
\* and, as lastX/lastY, the x/y of the callback before them (prev).
RECURSIVE DeltaOK(_, _)
DeltaOK(prev, cs) ==
  IF cs = <<>> THEN TRUE
  ELSE LET c == Head(cs) IN
       /\ c.fn = "move" =>
            /\ c.deltaX = Sub(c.x, c.lastX)
            /\ c.deltaY = Sub(c.y, c.lastY)
            /\ (prev.x # NaN \/ prev.y # NaN) => (c.lastX = prev.x /\ c.lastY = prev.y)
       /\ DeltaOK(AdvancePrev(prev, <<c>>), Tail(cs))

\* C10: every move callback reports deltaX = x - lastX and deltaY = y - lastY,
\* with lastX/lastY the x/y the previous callback of the gesture reported
\* (the start callback for the first move).
C10_DeltaConsistency ==
  DeltaOK(hist.prev, CoreCalls) /\ DeltaOK(hist.uprev, UserCalls)

\* The handler invoked the move callback of DraggableCore once, with the raw
\* delta (dx, dy), and the callback accepted the move.
MovedBy(cs, dx, dy) ==
  /\ CountCalls(cs, "move") = 1
  /\ \E i \in 1 .. Len(cs) :
       cs[i].fn = "move" /\ cs[i].ret /\ cs[i].deltaX = dx /\ cs[i].deltaY = dy

\* The element is at (x, y) with slack (sx, sy).
PlacedAt(u, x, y, sx, sy) ==
  /\ u.internalX = x /\ u.internalY = y
  /\ u.internalSlackX = sx /\ u.internalSlackY = sy

\* The move callback of Draggable's user reported the position (x, y).
ReportedAt(cs, x, y) ==
  \E i \in 1 .. Len(cs) : cs[i].fn = "move" /\ cs[i].x = x /\ cs[i].y = y

\* C11 as stated: with bounds {0, 100, 0, 100} and the element at (50, 50),
\* a move by (+80, 0) yields the clamped position (100, 50) with slack
\* (30, 0), and a following move by (-50, 0) yields position (50, 50) with
\* slack (0, 0).
C11_ScenarioB_AsStated ==
  [][ /\ (PlacedAt(ui, 50, 50, 0, 0) /\ MovedBy(CoreCalls', 80, 0))
           => (PlacedAt(ui', 100, 50, 30, 0) /\ ReportedAt(UserCalls', 100, 50))
      /\ (PlacedAt(ui, 100, 50, 30, 0) /\ MovedBy(CoreCalls', 0 - 50, 0))
           => (PlacedAt(ui', 50, 50, 0, 0) /\ ReportedAt(UserCalls', 50, 50)) ]_vars

\* C11 amended: with bounds {0, 100, 0, 100} and the element at (50, 50), a
\* move by (+80, 0) yields the clamped position (100, 50) with slack (30, 0),
\* and a following move by (-50, 0) first uses up the slack and yields
\* position (80, 50) with slack (0, 0).
C11_ScenarioB ==
  [][ /\ (PlacedAt(ui, 50, 50, 0, 0) /\ MovedBy(CoreCalls', 80, 0))
           => (PlacedAt(ui', 100, 50, 30, 0) /\ ReportedAt(UserCalls', 100, 50))
      /\ (PlacedAt(ui, 100, 50, 30, 0) /\ MovedBy(CoreCalls', 0 - 50, 0))
           => (PlacedAt(ui', 80, 50, 0, 0) /\ ReportedAt(UserCalls', 80, 50)) ]_vars

\* The second move of the scenario has been made: the previous callback
\* reported the clamped position (100, 50) and a move by (-50, 0) followed.
C11_Witness ==
  /\ hist.uprev = [x |-> 100, y |-> 50]
  /\ MovedBy(CoreCalls, 0 - 50, 0)
  /\ PlacedAt(ui, 80, 50, 0, 0)

\* The move callback c reports no movement on the axes that props.axis does
\* not allow.
HeldAxes(c) ==
  /\ ~canDragX(props) => (c.deltaX = 0 /\ c.x = c.lastX)
  /\ ~canDragY(props) => (c.deltaY = 0 /\ c.y = c.lastY)

WithinBounds(v, lo, hi) == ~props.bounds.has \/ (v >= lo /\ v <= hi)

\* The move callback c reports no movement on a disallowed axis on which the
\* position lay within the bounds.
HeldAxesWithinBounds(c) ==
  /\ (~canDragX(props) /\ WithinBounds(c.lastX, props.bounds.left, props.bounds.right))
       => (c.deltaX = 0 /\ c.x = c.lastX)
  /\ (~canDragY(props) /\ WithinBounds(c.lastY, props.bounds.top, props.bounds.bottom))
       => (c.deltaY = 0 /\ c.y = c.lastY)

PinnedAxis(axis, c) ==
  /\ axis = "x" => (c.deltaY = 0 /\ c.y = c.lastY)
  /\ axis = "y" => (c.deltaX = 0 /\ c.x = c.lastX)

PinnedAxisWithinBounds(axis, c) ==
  /\ (axis = "x" /\ WithinBounds(c.lastY, props.bounds.top, props.bounds.bottom))
       => (c.deltaY = 0 /\ c.y = c.lastY)
  /\ (axis = "y" /\ WithinBounds(c.lastX, props.bounds.left, props.bounds.right))
       => (c.deltaX = 0 /\ c.x = c.lastX)

Origin == AdvanceOrigin(hist.origin, UserCalls)

\* a and b differ by an exact multiple of g.
SamePhase(a, b, g) == (a - b) % g = 0

\* The committed position keeps the grid phase of the gesture's start.
OnGrid ==
  (props.grid > 0 /\ Origin.x # NaN) =>
    /\ SamePhase(ui.internalX, Origin.x, props.grid)
    /\ SamePhase(ui.internalY, Origin.y, props.grid)

Nearest(d, r, g) == r % g = 0 /\ 2 * Abs(d - r) <= g

\* Math.round(d / g) is zero.
RoundsToZero(d, g) == 0 - g <= 2 * d /\ 2 * d < g

\* The handler invoked the move callback of DraggableCore once, with the
\* pointer delta (dx, dy) from (lastX, lastY) rounded to the grid, and
\* committed the rounded position when the callback accepted it.
SnappedMove(cs, st, lastX, lastY, dx, dy, g) ==
  /\ CountCalls(cs, "move") = 1
  /\ \E i \in 1 .. Len(cs) :
       /\ cs[i].fn = "move"
       /\ Nearest(dx, cs[i].deltaX, g) /\ Nearest(dy, cs[i].deltaY, g)
       /\ cs[i].lastX = lastX /\ cs[i].lastY = lastY
       /\ cs[i].x = lastX + cs[i].deltaX /\ cs[i].y = lastY + cs[i].deltaY
       /\ cs[i].ret => (st.lastX = cs[i].x /\ st.lastY = cs[i].y)

\* Every move callback of DraggableCore in cs reports a position that is a
\* whole number of grid steps from the last committed one.
SnappedCalls(cs, g) ==
  \A i \in 1 .. Len(cs) :
    cs[i].fn = "move" =>
      /\ cs[i].deltaX % g = 0 /\ cs[i].deltaY % g = 0
      /\ cs[i].x = cs[i].lastX + cs[i].deltaX /\ cs[i].y = cs[i].lastY + cs[i].deltaY

\* The step delivers the move event e of the bound pointer to a dragging
\* instance with a grid (a move that is not vetoed leaves e in
\* autoScrollLastEvent).
GridMoveOf(e) ==
  /\ props.grid > 0
  /\ state.dragging
  /\ isPointerEvent(e) /\ e.id = state.pointerIdentifier
  /\ DocumentMoveOf(e)

\* C15: with a grid, each move's delta from the last committed position is
\* rounded per axis to the nearest multiple of the grid and the rounded delta
\* is what is reported and committed; a move whose rounded delta is zero on
\* both axes fires no callback and leaves lastX/lastY (the whole state
\* object) unchanged.  Pointer-down at (0, 0) and a move to (10, 4) with grid
\* [5, 5] give position (10, 5) and delta (10, 5).
C15_GridRounding ==
  [][ /\ props.grid > 0 => SnappedCalls(CoreCalls', props.grid)
      /\ GridMoveOf(core'.autoScrollLastEvent)
           => /\ IF RoundsToZero(core'.autoScrollLastEvent.x - state.lastX, props.grid)
                      /\ RoundsToZero(core'.autoScrollLastEvent.y - state.lastY, props.grid)
                 THEN calls' = <<>> /\ state' = state
                 ELSE SnappedMove(CoreCalls', state', state.lastX, state.lastY,
                                  core'.autoScrollLastEvent.x - state.lastX,
                                  core'.autoScrollLastEvent.y - state.lastY, props.grid)
              /\ (/\ state.lastX = 0 /\ state.lastY = 0
                  /\ core'.autoScrollLastEvent.x = 10 /\ core'.autoScrollLastEvent.y = 4)
                   => (MovedBy(CoreCalls', 10, 5) /\ state'.lastX = 10 /\ state'.lastY = 5) ]_vars

\* The move to (10, 4) after a press at (0, 0) was committed at (10, 5).
C15_Witness ==
  /\ props.grid = 5
  /\ hist.prev = [x |-> 0, y |-> 0]
  /\ core.autoScrollLastEvent.x = 10 /\ core.autoScrollLastEvent.y = 4
  /\ MovedBy(CoreCalls, 10, 5)
  /\ state.lastX = 10 /\ state.lastY = 5

\* The point (x, y) is at least t away from the anchor of the pending press.
Reached(x, y, t) ==
  ((x - core.dragStartX) * (x - core.dragStartX))
    + ((y - core.dragStartY) * (y - core.dragStartY)) >= t * t

\* The start callback DraggableCore invoked, among cs.
StartCall(cs) == cs[CHOOSE i \in 1 .. Len(cs) : cs[i].fn = "start"]

\* The events of the family whose listeners are attached.
FamilyEvents == EventsOf(core.dragEventFor)

C17_AnchorReference ==
  [][ (/\ props.dragStartThreshold > 0
       /\ core.pendingDragStart /\ core.pendingDragStartMode = "threshold"
       /\ HasCall(CoreCalls', "start"))
        => LET s == StartCall(CoreCalls') IN
           /\ s.lastX = core.dragStartX /\ s.lastY = core.dragStartY
           /\ s.deltaX = s.x - core.dragStartX
           /\ s.deltaY = s.y - core.dragStartY ]_vars

\* The delay timer of a pending press is armed and has not fired.
AwaitingDelay ==
  /\ core.pendingDragStart /\ core.pendingDragStartMode = "delay"
  /\ core.dragStartDelayTimerId

\* The point (x, y) is farther than t from the anchor of the pending press.
Beyond(x, y, t) ==
  ((x - core.dragStartX) * (x - core.dragStartX))
    + ((y - core.dragStartY) * (y - core.dragStartY)) > t * t

\* Nothing of the gesture is left: no drag, no pending press, no timer, no
\* document listener of its event family.
Quiet ==
  /\ Idle
  /\ ~core.dragStartDelayTimerId
  /\ doc.listeners \cap FamilyListeners(core.dragEventFor) = {}

\* A step taken when nothing of a gesture is left invokes no callback other
\* than those of a new press.
QuietStaysSilent ==
  Quiet => \/ calls' = <<>>
           \/ /\ ~(core'.pendingDragStart /\ core'.pendingDragStartMode = "delay")
              /\ calls'[1].fn = "start"

\* C18 as stated: with dragStartDelay > 0 and tolerance t, a tracked move
\* farther than t from the anchor before the timer fires cancels the gesture
\* outright: the timer is cleared, the listeners are removed, and no start,
\* move or stop callback fires for that gesture, then or later.
C18_DelayCancel_AsStated ==
  [][ /\ \A e \in FamilyEvents :
           (/\ AwaitingDelay
            /\ ~Untracked(e)
            /\ Beyond(e.x, e.y, props.dragStartDelayTolerance)
            /\ DocumentMoveOf(e))
             => calls' = <<>> /\ Quiet'
      /\ QuietStaysSilent ]_vars

\* C18 amended: with dragStartDelay > 0 and tolerance t > 0, a tracked move
\* farther than t from the anchor before the timer fires cancels the gesture
\* outright: the timer is cleared, the listeners are removed, and no start,
\* move or stop callback fires for that gesture, then or later (delay 300,
\* tolerance 5: a move to (8, 0)); a move within t leaves the gesture
\* pending.  With a tolerance of 0 no move cancels.
C18_DelayCancel ==
  [][ /\ \A e \in FamilyEvents :
           (/\ AwaitingDelay
            /\ ~Untracked(e)
            /\ DocumentMoveOf(e))
             => /\ calls' = <<>>
                /\ IF props.dragStartDelayTolerance > 0
                        /\ Beyond(e.x, e.y, props.dragStartDelayTolerance)
                   THEN Quiet'
                   ELSE AwaitingDelay' /\ core'.pendingX = e.x
                /\ (props.dragStartDelayTolerance = 5 /\ core.dragStartX = 0
                      /\ e.x = 8 /\ e.y = 0) => Quiet'
      /\ QuietStaysSilent ]_vars

\* A pending touch press at (0, 0) with delay 300 and tolerance 5 was
\* cancelled by a move to (8, 0): nothing of the gesture is left.
C18_Witness ==
  /\ props.dragStartDelay = 300 /\ props.dragStartDelayTolerance = 5
  /\ core.dragEventFor = "touch"
  /\ hist.last = "move"
  /\ Quiet
  /\ calls = <<>>

\* The gesture under way was begun by a finger: a touchstart, or a
\* pointerdown of pointerType 'touch'.
TouchGesture ==
  \/ core.dragEventFor = "touch"
  \/ /\ core.dragEventFor = "pointer"
     /\ state.pointerIdentifier # None
     /\ PointerTypeOf(state.pointerIdentifier) = "touch"

\* C19 as stated: with dragStartDelay > 0 every accepted press (mouse, touch
\* or pointer) arms the timer and leaves the gesture pending, and the start
\* callback is not invoked before the timer has fired.
C19_DelayArms_AsStated ==
  [][ props.dragStartDelay > 0 =>
      /\ (Idle /\ ~Idle') => (AwaitingDelay' /\ calls' = <<>>)
      /\ HasCall(CoreCalls', "start") => (AwaitingDelay /\ hist'.last = "timer") ]_vars

\* C19 amended: with dragStartDelay > 0 every accepted press of a finger
\* (touchstart, or pointerdown of pointerType 'touch') arms the timer and
\* leaves the gesture pending, and the start callback of that gesture is not
\* invoked before the timer has fired; a press of the mouse arms no timer.
C19_DelayArms ==
  [][ props.dragStartDelay > 0 =>
      /\ (Idle /\ ~Idle') =>
           IF TouchGesture'
           THEN AwaitingDelay' /\ calls' = <<>>
                  /\ core'.pendingX = core'.dragStartX
           ELSE ~core'.dragStartDelayTimerId
                  /\ core'.pendingDragStartMode # "delay"
      /\ HasCall(CoreCalls', "start") =>
           \/ AwaitingDelay /\ hist'.last = "timer"
           \/ core.pendingDragStartMode # "delay" /\ ~TouchGesture' ]_vars

\* A finger went down as a pointer of pointerType 'touch' under a delay of
\* 300 ms: the gesture is pending on its timer and no callback has run.
C19_Witness ==
  /\ props.dragStartDelay = 300
  /\ core.dragEventFor = "pointer" /\ TouchGesture
  /\ AwaitingDelay
  /\ core.pendingX = core.dragStartX
  /\ calls = <<>>

\* The first move callback DraggableCore invoked, among cs.
MoveCall(cs) == cs[CHOOSE i \in 1 .. Len(cs) : cs[i].fn = "move"]

\* C20: when the delay timer fires while the gesture is pending, the start
\* callback is invoked exactly once, with the latest position seen while
\* pending (the anchor after the press, then the position of each tracked
\* move); once start is accepted the gesture is active, and the next move's
\* delta is measured from that position.
C20_TimerStarts ==
  [][ /\ (AwaitingDelay /\ hist'.last = "timer") =>
           /\ Len(calls') = 1
           /\ calls'[1].fn = "start"
           /\ calls'[1].x = core.pendingX /\ calls'[1].y = core.pendingY
           /\ ~core'.dragStartDelayTimerId
           /\ calls'[1].ret =>
                /\ state'.dragging /\ ~core'.pendingDragStart
                /\ state'.lastX = core.pendingX /\ state'.lastY = core.pendingY
      /\ (Idle /\ AwaitingDelay') =>
           (core'.pendingX = core'.dragStartX /\ core'.pendingY = core'.dragStartY)
      /\ \A e \in FamilyEvents :
           (AwaitingDelay /\ ~Untracked(e) /\ DocumentMoveOf(e) /\ AwaitingDelay')
             => (core'.pendingX = e.x /\ core'.pendingY = e.y)
      /\ (/\ hist.last = "timer" /\ state.dragging
          /\ HasCall(CoreCalls, "start")
          /\ HasCall(CoreCalls', "move"))
           => /\ MoveCall(CoreCalls').lastX = StartCall(CoreCalls).x
              /\ MoveCall(CoreCalls').lastY = StartCall(CoreCalls).y
              /\ MoveCall(CoreCalls').deltaX
                   = MoveCall(CoreCalls').x - StartCall(CoreCalls).x
              /\ MoveCall(CoreCalls').deltaY
                   = MoveCall(CoreCalls').y - StartCall(CoreCalls).y ]_vars

\* The timer fired on a press at 0 that had moved to 3 within the tolerance:
\* start was invoked at 3 and the gesture is active there.
C20_Witness ==
  /\ hist.last = "timer"
  /\ core.dragStartX = 0
  /\ Len(calls) = 1 /\ calls[1].fn = "start" /\ calls[1].x = 3
  /\ state.dragging
  /\ state.lastX = 3

\* A move event is buffered and its frame has not run.
Buffered == core.dragRafId /\ core.pendingDragEvent # NoEvent

\* The position of the buffered event, and the position it is measured from.
BufferedX == core.pendingDragEvent.x + doc.scroll

BufferedY == core.pendingDragEvent.y

BaseX == IF IsFinite(core.lastProcessedX) THEN core.lastProcessedX ELSE state.lastX

BaseY == IF IsFinite(core.lastProcessedY) THEN core.lastProcessedY ELSE state.lastY

\* C21: with useRafDrag, when the stop callback is invoked while a move is
\* still buffered, the buffered move is processed first: its move callback
\* fires with the buffered position before stop, and no frame remains
\* requested afterwards.  (A buffered event at the position already
\* processed carries no movement and fires no move callback.)
C21_FlushOnStop ==
  [][ (/\ props.useRafDrag
       /\ state.dragging /\ Buffered
       /\ doc'.scroll = doc.scroll
       /\ HasCall(CoreCalls', "stop"))
        => /\ IF BufferedX # BaseX \/ BufferedY # BaseY
              THEN /\ CoreCalls'[1].fn = "move"
                   /\ CoreCalls'[1].x = BufferedX /\ CoreCalls'[1].y = BufferedY
                   /\ CoreCalls'[1].lastX = state.lastX
                   /\ \A i \in 2 .. Len(CoreCalls') : CoreCalls'[i].fn = "stop"
              ELSE ~HasCall(CoreCalls', "move")
           /\ doc'.raf = <<>>
           /\ ~core'.dragRafId /\ ~core'.autoScrollRafId ]_vars

\* A release arrived while a move was buffered: the move callback ran, was
\* accepted, and stop followed in the same step.
C21_Witness ==
  /\ props.useRafDrag
  /\ Len(calls) = 2
  /\ calls[1].fn = "move" /\ calls[1].ret /\ calls[1].deltaX # 0
  /\ calls[2].fn = "stop"
  /\ ~state.dragging
  /\ doc.raf = <<>>

\* C22: with useRafDrag the movement pipeline and the move callback
\* run at most once per animation frame, on the latest buffered event, and
\* not at all when a move event arrives - also while auto-scroll is active.
C22_OncePerFrame ==
  [][ props.useRafDrag =>
        /\ CountCalls(CoreCalls', "move") <= 1
        /\ (state.dragging /\ Buffered /\ HasCall(CoreCalls', "move")
              /\ doc'.scroll = doc.scroll)
             => (MoveCall(CoreCalls').x = BufferedX /\ MoveCall(CoreCalls').y = BufferedY)
        /\ (state.dragging /\ core'.pendingDragEvent # core.pendingDragEvent
              /\ core'.pendingDragEvent # NoEvent /\ doc'.scroll = doc.scroll)
             => calls' = <<>> ]_vars

\* The handler of the step left the instance and the document as they were.
Untouched == state' = state /\ core' = core /\ ui' = ui /\ doc' = doc

\* The touchstart of a touch whose pointerdown armed the ignore window, and
\* which arrives within it.
DuplicateTouchStart ==
  core.ignoreTouchStartUntil = "armed" /\ core'.ignoreTouchStartUntil = "unset"

\* C23: a press reported through two event families (pointerdown then
\* mousedown, or pointerdown then a touchstart within the ignore window)
\* invokes start at most once and its release invokes stop at most once: the
\* duplicate press starts nothing, an event fires at most one start and one
\* stop, stop fires only for a gesture whose stop has not fired yet, and in a
\* browser with pointer events a mouse event starts and stops nothing.
C23_OncePerPress ==
  [][ /\ DuplicateTouchStart => (calls' = <<>> /\ state' = state)
      /\ (props.hasPointerEvent /\ (MouseDown \/ MouseUp))
           => (calls' = <<>> /\ Untouched)
      /\ CountCalls(CoreCalls', "start") <= 1
      /\ CountCalls(CoreCalls', "stop") <= 1
      /\ HasCall(CoreCalls', "stop") => hist'.open ]_vars

\* C24: with enableUserSelectHack the selection-suppression class is on the
\* body of the document exactly while some instance on that document is
\* dragging, also when one of two instances stops while the other drags.
C24_SelectionClass ==
  props.enableUserSelectHack
    => (doc.bodyClass <=> (state.dragging \/ doc.peerDragging))

\* The capture-phase click listener of the click suppression is installed.
Installed == core.suppressClickListener

\* The step ends, with a stop callback that does not return false, a drag
\* in which a move was accepted, on a mounted instance.
MovedDragStops ==
  /\ state.dragging /\ core.hasDragged /\ state'.mounted
  /\ \E i \in 1 .. Len(CoreCalls') : CoreCalls'[i].fn = "stop" /\ CoreCalls'[i].ret

C26_MissingBounds ==
  [][ hist'.thrown =>
        /\ ~HasCall(calls', "move")
        /\ ui'.x = ui.x /\ ui'.y = ui.y
        /\ ui'.internalX = ui.internalX /\ ui'.internalY = ui.internalY
        /\ ui'.slackX = ui.slackX /\ ui'.slackY = ui.slackY
        /\ ui'.internalSlackX = ui.internalSlackX
        /\ ui'.internalSlackY = ui.internalSlackY
        /\ state'.lastX = state.lastX /\ state'.lastY = state.lastY
        /\ core'.lastProcessedX = core.lastProcessedX
        /\ core'.lastProcessedY = core.lastProcessedY ]_vars

\* C27: while the disabled option is true no drag handler (start, move or
\* stop) is called, whatever arrives, also when the option became true
\* while a gesture was pending or dragging.
C27_DisabledSilent == props.disabled => calls = <<>>

\* The position handed to the render layer.
Rendered == transformOpts(props, ui)

Moves ==
  { i \in 1 .. Len(calls) - 1 :
      /\ calls[i].layer = "user" /\ calls[i].fn = "move"
      /\ calls[i + 1].layer = "core" /\ calls[i + 1].fn = "move" }

Clamp(v, lo, hi) == IF v < lo THEN lo ELSE IF v > hi THEN hi ELSE v

\* One axis of a move under bounds lo .. hi: from position p with slack s a
\* raw delta d leads to position q with slack t.
SlackStep(p, s, d, q, t, lo, hi) ==
  /\ q = Clamp(p + d + s, lo, hi)
  /\ t = s + ((p + d) - q)
  /\ q + t = p + s + d
  /\ t # 0 => q \in {lo, hi}
  /\ (s = 0 /\ p + d >= lo /\ p + d <= hi) => (q = p + d /\ t = 0)

\* The step made one move, which the caller accepted, and no stop.
AcceptedMove ==
  /\ Cardinality(Moves') = 1
  /\ \A i \in Moves' : calls'[i].ret
  /\ ~HasCall(calls', "stop")

\* C30: with bounds active each accepted move adds the slack to the proposed
\* position, clamps each axis on its own and sets the new slack to the old
\* slack plus what the clamp took off; so position + slack advances by the
\* raw delta, slack is nonzero only on a bound, and a position inside the
\* bounds with zero slack is taken as it is, with zero slack.
C30_Slack ==
  [][ (props.bounds.has /\ ~props.bounds.missing /\ props.axis = "both"
       /\ ui.dragging /\ AcceptedMove)
        => \A i \in Moves' :
             /\ SlackStep(ui.internalX, ui.internalSlackX, calls'[i + 1].deltaX,
                          ui'.internalX, ui'.internalSlackX,
                          props.bounds.left, props.bounds.right)
             /\ SlackStep(ui.internalY, ui.internalSlackY, calls'[i + 1].deltaY,
                          ui'.internalY, ui'.internalSlackY,
                          props.bounds.top, props.bounds.bottom)
             /\ calls'[i].x = ui'.internalX /\ calls'[i].y = ui'.internalY ]_vars

\* Both axes are clamped: an accepted vertical move has put the element on
\* the bottom bound with slack, and the slack of the earlier horizontal move
\* is kept on the right bound.
C30_Witness ==
  /\ props.bounds.has /\ ~props.bounds.missing
  /\ ui.dragging
  /\ ui.internalX = props.bounds.right /\ ui.internalSlackX > 0
  /\ ui.internalY = props.bounds.bottom /\ ui.internalSlackY > 0
  /\ \E i \in Moves : calls[i].ret /\ calls[i + 1].deltaY > 0 /\ calls[i + 1].deltaX = 0

\* The stop callback c of Draggable reports a position under the policies of
\* the move pipeline: within the bounds, unmoved on a disallowed axis and on
\* the axis pinned by the lock lockAxis, and, with a grid and no bounds, a
\* whole number of grid steps from origin.
StopConstrained(c, lockAxis, origin) ==
  /\ WithinBounds(c.x, props.bounds.left, props.bounds.right)
  /\ WithinBounds(c.y, props.bounds.top, props.bounds.bottom)
  /\ HeldAxes(c)
  /\ PinnedAxis(lockAxis, c)
  /\ (props.grid > 0 /\ ~props.bounds.has /\ origin.x # NaN)
       => (SamePhase(c.x, origin.x, props.grid) /\ SamePhase(c.y, origin.y, props.grid))

\* C31: on release the movement-policy pipeline runs once more before the
\* stop callback: the x/y reported to the stop callback of Draggable lie
\* within the active bounds, respect the axis restriction and the direction
\* lock, and are on the grid, as the positions reported to move do.
C31_StopConstrained ==
  [][ (~HasCall(calls', "move") /\ ~HasCall(calls', "start"))
        => \A i \in 1 .. Len(UserCalls') :
             UserCalls'[i].fn = "stop"
               => StopConstrained(UserCalls'[i], ui.directionLockAxis, hist'.origin) ]_vars

\* The direction lock applies: directionLock with axis 'both'.
Locking == props.directionLock /\ canDragX(props) /\ canDragY(props)

\* The accumulated displacement (tx, ty) has reached directionLockThreshold.
CrossesLock(tx, ty) ==
  tx * tx + ty * ty >= getDirectionLockThreshold * getDirectionLockThreshold

\* The step runs inside one gesture: Draggable's user sees no start and no
\* stop callback.
WithinGesture == ~HasCall(UserCalls', "start") /\ ~HasCall(UserCalls', "stop")

\* C32: with directionLock and axis 'both' the lock axis is set at most once
\* per gesture, at the move where the accumulated raw displacement crosses
\* directionLockThreshold, to the axis with the larger accumulated magnitude
\* (x on a tie); it never changes for the rest of the gesture, it is cleared
\* at stop and at the next start, and the other axis is pinned to its
\* committed value at lock time.
C32_DirectionLock ==
  [][ Locking =>
        /\ (WithinGesture /\ ui.directionLockAxis # "none")
             => ui'.directionLockAxis = ui.directionLockAxis
        /\ (WithinGesture /\ ui.directionLockAxis = "none" /\ ui'.directionLockAxis # "none")
             => /\ HasCall(CoreCalls', "move")
                /\ CrossesLock(ui'.directionLockTotalX, ui'.directionLockTotalY)
                /\ ui'.directionLockAxis =
                     (IF Abs(ui'.directionLockTotalX) >= Abs(ui'.directionLockTotalY)
                      THEN "x" ELSE "y")
        /\ (WithinGesture /\ ui.dragging /\ ui'.directionLockAxis = "none"
              /\ CountCalls(CoreCalls', "move") = 1)
             => /\ ui'.directionLockTotalX
                     = ui.directionLockTotalX + MoveCall(CoreCalls').deltaX
                /\ ui'.directionLockTotalY
                     = ui.directionLockTotalY + MoveCall(CoreCalls').deltaY
                /\ ~CrossesLock(ui'.directionLockTotalX, ui'.directionLockTotalY)
        /\ (HasCall(UserCalls', "stop") \/ HasCall(UserCalls', "start"))
             => ui'.directionLockAxis = "none"
        /\ ui'.directionLockAxis = "x" => ui'.internalY = ui'.directionLockFixedY
        /\ ui'.directionLockAxis = "y" => ui'.internalX = ui'.directionLockFixedX ]_vars

\* The gesture waits for its qualification: the threshold has not been
\* reached by any move, buffered ones included, or the delay timer has not
\* fired.
AwaitingQualification ==
  /\ core.pendingDragStart /\ ~state.dragging
  /\ core.pendingDragStartMode = "delay" => core.dragStartDelayTimerId
  /\ (core.pendingDragStartMode = "threshold" /\ core.pendingDragEvent # NoEvent)
       => ~meetsDragStartThreshold(Cur(AllTrue), BufferedX, BufferedY)

\* The pointer of the gesture is released or cancelled.
TrackedRelease ==
  \E e \in PointerEvents : e.id = state.pointerIdentifier /\ PointerUpOf(e)

\* Nothing of the pending gesture is left.
Discarded ==
  /\ calls' = <<>>
  /\ ~core'.dragStartDelayTimerId
  /\ ~core'.pendingDragStart /\ core'.pendingDragStartMode = "none"
  /\ ~state'.dragging
  /\ doc'.listeners = {}
  /\ ~core'.dragRafId /\ doc'.raf = <<>>

\* C33: a release, cancel or unmount that arrives while the gesture is still
\* pending qualification invokes neither the start nor the stop callback,
\* clears the delay timer and the pending state and removes the document
\* listeners; a timer or frame that fires afterwards starts nothing.
C33_PendingDiscarded ==
  [][ /\ (AwaitingQualification /\ (TrackedRelease \/ Unmount)) => Discarded
      /\ (Idle /\ (DelayTimer \/ DragFrame)) => calls' = <<>> ]_vars

\* The event that holds the pointer's last position for auto-scroll, in
\* the closure c.
LastPointer(c) ==
  IF c.autoScrollLastEvent # NoEvent THEN c.autoScrollLastEvent
  ELSE c.pendingDragEvent

\* The scroll offsets a tick would leave on the document d, the pointer
\* being where it is.
AfterTick(c, d) ==
  autoScrollContainersLoop(d, c.autoScrollContainers,
                           LastPointer(c).x, LastPointer(c).y, FALSE, FALSE).scrollAt

\* A drag is active with auto-scroll and the pointer rests in the edge zone
\* of a container that can still scroll.
InScrollZone(s, c, d) ==
  /\ props.autoScroll /\ s.dragging
  /\ c.autoScrollContainers # <<>>
  /\ LastPointer(c) # NoEvent
  /\ AfterTick(c, d) # d.scrollAt

\* C34: while a drag is active with autoScroll and the pointer rests inside
\* the edge zone of a container that can still scroll, an auto-scroll frame
\* is scheduled, and a tick that scrolls re-runs the move pipeline with the
\* last pointer position; nothing scrolls unless the pointer is in such a
\* zone during a drag, and no frame stays scheduled once the drag has ended.
C34_AutoScrollLoop ==
  [][ /\ InScrollZone(state', core', doc') => core'.autoScrollRafId
      /\ doc'.scrollAt # doc.scrollAt
           => /\ InScrollZone(state, core, doc)
              /\ doc'.scrollAt = AfterTick(core, doc)
              /\ props.grid = 0
                   => \E i \in 1 .. Len(calls') :
                        /\ calls'[i].fn = "move"
                        /\ calls'[i].x = LastPointer(core).x + doc'.scroll
                        /\ calls'[i].y = LastPointer(core).y + doc'.scrollY
      /\ ~state'.dragging => ~core'.autoScrollRafId ]_vars

\* The number of requests of the frame callback cb the window holds.
FramesOf(cb) == Cardinality({i \in 1 .. Len(doc.raf) : doc.raf[i] = cb})

\* C35: at every moment the instance has at most one drag-start delay timer,
\* at most one drag frame and at most one auto-scroll frame pending (each
\* the one its handle names), and none of them is pending while the
\* instance is idle (neither pending nor dragging) or after unmount.
C35_HandlesQuiet ==
  /\ FramesOf("drag") = (IF core.dragRafId THEN 1 ELSE 0)
  /\ FramesOf("scroll") = (IF core.autoScrollRafId THEN 1 ELSE 0)
  /\ (Idle \/ doc.lifecycle = "unmounted")
       => /\ ~core.dragStartDelayTimerId
          /\ ~core.dragRafId
          /\ ~core.autoScrollRafId

\* The callbacks of Draggable's caller in the last step end with a stop the
\* caller did not veto: the stop path of Draggable ran to its end.
StopCompleted ==
  /\ UserCalls # <<>>
  /\ UserCalls[Len(UserCalls)].fn = "stop"
  /\ UserCalls[Len(UserCalls)].ret

\* The position of the last callback the caller accepted in the gesture the
\* last step stopped: its last move that was not vetoed, or its start.
LastAccepted == AdvanceKept(hist.kept, SubSeq(UserCalls, 1, Len(UserCalls) - 1))

\* C36: after the stop path of a Draggable has completed its reactive state
\* equals its internal state with no flush pending, both slacks are 0, the
\* dragging flag is false and the direction lock is cleared; the committed
\* position is that of the last accepted move of the gesture (the pre-drag
\* position if there was none) when uncontrolled and the position option
\* when controlled.
C36_StopSettles ==
  StopCompleted
    => /\ ui.x = ui.internalX /\ ui.y = ui.internalY
       /\ ui.slackX = ui.internalSlackX /\ ui.slackY = ui.internalSlackY
       /\ ~ui.rafId /\ ui.frames = 0
       /\ ui.slackX = 0 /\ ui.slackY = 0
       /\ ~ui.dragging
       /\ ui.directionLockAxis = "none"
       /\ IF props.position.has
          THEN ui.x = props.position.x /\ ui.y = props.position.y
          ELSE ui.x = LastAccepted.x /\ ui.y = LastAccepted.y

\* An uncontrolled Draggable with direction lock has stopped away from where
\* the drag began, at the position of the last move its caller accepted.
C36_Witness ==
  /\ StopCompleted
  /\ ~props.position.has
  /\ props.directionLock
  /\ LastAccepted.x # NaN
  /\ ui.x = LastAccepted.x
  /\ ui.x # props.defaultPosition.x

\* The press of the mouse pointer e.
PrimaryDownOf(e) == Run(LAMBDA w : onPointerdown(w, e))

\* One axis of a move of Draggable: from position p with slack k the pointer
\* moves d client pixels and the callback reports position q and delta r.
ScaledOnce(p, k, d, q, r, lo, hi) ==
  /\ q = (IF props.bounds.has THEN Clamp(p + (d \div props.scale) + k, lo, hi)
          ELSE p + (d \div props.scale))
  /\ r = (IF props.bounds.has THEN q - p ELSE d \div props.scale)

\* C37: scale is applied exactly once.  For a Draggable with scale s the
\* core measures the pointer in client pixels, a pointer movement of D
\* client pixels changes the reported position and delta by D / s, also when
\* the bounds clamp the position, and dragStartThreshold and
\* directionLockThreshold are compared against the pointer movement in
\* client pixels.
C37_ScaledOnce ==
  [][ LET e == core'.autoScrollLastEvent
          T == props.dragStartThreshold
          L == props.directionLockThreshold
          started == HasCall(calls', "start")
      IN
      /\ (~core.pendingDragStart /\ core'.pendingDragStart)
           => \E p \in PointerEvents :
                /\ p.x = core'.dragStartX /\ p.y = core'.dragStartY
                /\ IsPress(p) /\ p.ptype = "mouse"
                /\ PrimaryDownOf(p)
      /\ (hist'.last = "move" /\ e # NoEvent /\ core.pendingDragStart /\ T > 0)
           => (started <=>
                 ((e.x - core.dragStartX) * (e.x - core.dragStartX))
                   + ((e.y - core.dragStartY) * (e.y - core.dragStartY)) >= T * T)
      /\ \A i \in 1 .. Len(calls') - 1 :
           LET u == calls'[i]
               k == calls'[i + 1]
               tx == (IF started THEN 0 ELSE ui.directionLockTotalX * props.scale) + k.deltaX
               ty == (IF started THEN 0 ELSE ui.directionLockTotalY * props.scale) + k.deltaY
               free == (started \/ ui.directionLockAxis = "none")
           IN (/\ u.layer = "user" /\ u.fn = "move"
               /\ k.layer = "core" /\ k.fn = "move"
               /\ e # NoEvent)
                => /\ k.x = e.x /\ k.y = e.y
                   /\ (props.directionLock /\ free)
                        => ((ui'.directionLockAxis # "none")
                              <=> ((tx * tx) + (ty * ty) >= L * L))
                   /\ ui'.directionLockAxis = "none"
                        => /\ ScaledOnce(u.lastX, IF started THEN ui'.internalSlackX ELSE ui.internalSlackX,
                                         k.deltaX, u.x, u.deltaX,
                                         props.bounds.left, props.bounds.right)
                           /\ ScaledOnce(u.lastY, IF started THEN ui'.internalSlackY ELSE ui.internalSlackY,
                                         k.deltaY, u.y, u.deltaY,
                                         props.bounds.top, props.bounds.bottom) ]_vars

\* A Draggable with scale 2 and bounds has been dragged 16 client pixels to
\* the right: 8 in its own units, which the right bound 6 cuts short.
C37_Witness ==
  /\ props.scale = 2 /\ props.bounds.has
  /\ \E i \in Moves :
       /\ calls[i + 1].deltaX = 16
       /\ calls[i].lastX = 0
       /\ calls[i].x = 6 /\ calls[i].deltaX = 6

\* C38: a bounds-selector lookup that found no element is remembered for the
\* node and the selector: every later move that reaches the bounds, in the
\* same gesture or a later one, throws and invokes no move callback, and the
\* document is not queried again, even after a matching element has been
\* added to it.
C38_MissRemembered ==
  [][ doc.boundCache = "null"
        => /\ doc'.boundCache = "null"
           /\ doc'.queries = doc.queries
           /\ ~HasCall(calls', "move")
           /\ \A e \in PointerEvents :
                (/\ ui.dragging
                 /\ hist'.steps # hist.steps
                 /\ e.id = state.pointerIdentifier
                 /\ e.x # state.lastX \/ e.y # state.lastY
                 /\ DocumentMoveOf(e))
                  => hist'.thrown ]_vars

\* The lookup of an earlier gesture found nothing, a matching element has
\* been added since, and a move of a new gesture has thrown.
C38_Witness ==
  /\ doc.boundCache = "null" /\ doc.boundAdded
  /\ doc.queries = 1
  /\ hist.thrown
  /\ hist.steps = MaxSteps
  /\ ui.dragging

\* The scroll offset a tick leaves container on one axis when it is that
\* container's turn: from prev, within 0 .. max, by the delta the pointer's
\* distance to the container's edges asks for.
TickTarget(container, axis) ==
  LET delta == getAutoScrollDelta(doc, container, LastPointer(core).x, LastPointer(core).y)
  IN scrollElementBy(doc.scrollAt[container][axis], props.scrollMax[container][axis],
                     IF axis = "x" THEN delta.dx ELSE delta.dy)

IsCeiling(k, d, t, m) == k * t >= (t - d) * m /\ (k - 1) * t < (t - d) * m

\* The distance of the pointer x from the nearer vertical edge of the box.
EdgeDistance(x) == IF x <= props.viewSize - x THEN x ELSE props.viewSize - x

====
